---- MODULE Spec2Model ----
(***************************************************************************)
(* FieldQuAD: the batch annotation page (FieldQuadPage) and its canvas     *)
(* (AnnotationCanvas) as one state machine.  One action per event handler; *)
(* a handler's state updates, and the effects React runs after the render  *)
(* they cause, are one step.  Numbers are exact rationals <<n, d>>.        *)
(* Not modelled: colours, cursor style, the toolbar's highlighted class    *)
(* and the pixels drawn by redrawCanvas.                                   *)
(***************************************************************************)
EXTENDS Integers, Sequences, FiniteSets, TLC

VARIABLES
  batchImages,                 \* ImageState[]: [id, name, dimensions, annotations]
  activeImageId,               \* id of the image on the canvas, NoId if none
  annotationClasses,           \* AnnotationClass[]: [id, name]
  currentTool,                 \* "select" | "pan" | "bbox" | "polygon" | "freehand"
  selectedAnnotationId,        \* id of the annotation selected on canvas, NoId if none
  pendingShapeData,            \* None or Some(ShapeData)
  isClassAssignmentDialogOpen,
  isEditClassDialogOpen,
  isRenameClassDialogOpen,
  classToRename,               \* None or Some(AnnotationClass)
  classToDelete,               \* None or Some(AnnotationClass)
  isDeleteConfirmOpen,
  isDrawing,
  startPoint,                  \* None or Some(Point), image coordinates
  currentPoints,               \* Point[], image coordinates
  isDraggingAnnotation,
  dragStartOffset,             \* None or Some(Point), image coordinates
  zoom,
  offset,                      \* Point, canvas pixels
  isPanning,
  panStart,                    \* None or Some(Point), client coordinates
  pointer,                     \* buttons held over the canvas, where the pointer
                               \* is on it, and the run of primary clicks there
  budget,                      \* zoom, pan and drag steps taken (bounded exploration)
  signal,                      \* the last handler and what it emitted: toasts,
                               \* a proposed shape, a file to download
  loading                      \* the file selections whose images are being read:
                               \* the files, and the render the handler was made in

pageVars == <<batchImages, activeImageId, annotationClasses, currentTool,
              selectedAnnotationId, pendingShapeData, isClassAssignmentDialogOpen,
              isEditClassDialogOpen, isRenameClassDialogOpen, classToRename,
              classToDelete, isDeleteConfirmOpen>>

canvasVars == <<isDrawing, startPoint, currentPoints, isDraggingAnnotation,
                dragStartOffset, zoom, offset, isPanning, panStart>>

vars == <<pageVars, canvasVars, pointer, budget, signal, loading>>

-----------------------------------------------------------------------------
(* Bounds of the exploration. *)

MaxImages == 2

MaxClasses == 2

MaxAnnotations == 2

MaxPoints == 3

MaxViewSteps == 1

\* File selections that are being read at one time.
MaxLoading == 2

-----------------------------------------------------------------------------
(* Optional values and identifiers. *)

None == <<>>

Some(v) == <<v>>

NoId == 0

\* crypto.randomUUID(): an identifier that occurs nowhere in the state.
FreshId(used) ==
  CHOOSE i \in 1..(Cardinality(used) + 1) :
    i \notin used /\ \A j \in 1..(i - 1) : j \in used

Range(s) == {s[i] : i \in 1..Len(s)}

-----------------------------------------------------------------------------
(* JavaScript numbers, as exact rationals in lowest terms.                 *)

Abs(n) == IF n < 0 THEN -n ELSE n

RECURSIVE Gcd(_, _)
Gcd(a, b) == IF b = 0 THEN a ELSE Gcd(b, a % b)

Rat(n, d) ==
  LET g == Gcd(Abs(n), Abs(d))
      s == IF d < 0 THEN -1 ELSE 1
  IN  <<(s * n) \div g, (s * d) \div g>>

Num(i) == <<i, 1>>

RAdd(a, b) == Rat(a[1] * b[2] + b[1] * a[2], a[2] * b[2])

RSub(a, b) == Rat(a[1] * b[2] - b[1] * a[2], a[2] * b[2])

RMul(a, b) == Rat(a[1] * b[1], a[2] * b[2])

RDiv(a, b) == Rat(a[1] * b[2], a[2] * b[1])

RLt(a, b) == a[1] * b[2] < b[1] * a[2]

RLe(a, b) == a[1] * b[2] <= b[1] * a[2]

RAbs(a) == <<Abs(a[1]), a[2]>>

RMin(a, b) == IF RLt(b, a) THEN b ELSE a

RMax(a, b) == IF RLt(a, b) THEN b ELSE a

Pt(x, y) == [x |-> x, y |-> y]

PtAdd(p, q) == Pt(RAdd(p.x, q.x), RAdd(p.y, q.y))

PtSub(p, q) == Pt(RSub(p.x, q.x), RSub(p.y, q.y))

-----------------------------------------------------------------------------
(* The state as two records, so that a handler is a function of them.      *)

Page ==
  [batchImages |-> batchImages, activeImageId |-> activeImageId,
   annotationClasses |-> annotationClasses, currentTool |-> currentTool,
   selectedAnnotationId |-> selectedAnnotationId,
   pendingShapeData |-> pendingShapeData,
   isClassAssignmentDialogOpen |-> isClassAssignmentDialogOpen,
   isEditClassDialogOpen |-> isEditClassDialogOpen,
   isRenameClassDialogOpen |-> isRenameClassDialogOpen,
   classToRename |-> classToRename, classToDelete |-> classToDelete,
   isDeleteConfirmOpen |-> isDeleteConfirmOpen]

Canvas ==
  [isDrawing |-> isDrawing, startPoint |-> startPoint,
   currentPoints |-> currentPoints,
   isDraggingAnnotation |-> isDraggingAnnotation,
   dragStartOffset |-> dragStartOffset, zoom |-> zoom, offset |-> offset,
   isPanning |-> isPanning, panStart |-> panStart]

\* useState initial values of FieldQuadPage.
PageInit ==
  [batchImages |-> <<>>, activeImageId |-> NoId, annotationClasses |-> <<>>,
   currentTool |-> "bbox", selectedAnnotationId |-> NoId,
   pendingShapeData |-> None, isClassAssignmentDialogOpen |-> FALSE,
   isEditClassDialogOpen |-> FALSE, isRenameClassDialogOpen |-> FALSE,
   classToRename |-> None, classToDelete |-> None,
   isDeleteConfirmOpen |-> FALSE]

\* useState initial values of AnnotationCanvas.
CanvasInit ==
  [isDrawing |-> FALSE, startPoint |-> None, currentPoints |-> <<>>,
   isDraggingAnnotation |-> FALSE, dragStartOffset |-> None,
   zoom |-> Num(1), offset |-> Pt(Num(0), Num(0)),
   isPanning |-> FALSE, panStart |-> None]

Released == [held |-> {}, n |-> 0, at |-> None]

Quiet(op) == [op |-> op, toast |-> <<>>, shape |-> None, file |-> None]

Told(op, titles) == [op |-> op, toast |-> titles, shape |-> None, file |-> None]

-----------------------------------------------------------------------------
(* Derived state of the page.                                              *)

\* activeImage: the batch entry whose id is activeImageId, if any.
ActiveImage(p) ==
  LET hits == SelectSeq(p.batchImages, LAMBDA img : img.id = p.activeImageId)
  IN  IF hits = <<>> THEN None ELSE Some(hits[1])

\* activeAnnotations
ActiveAnnotations(p) ==
  IF ActiveImage(p) = None THEN <<>> ELSE ActiveImage(p)[1].annotations

ClassIds(p) == {p.annotationClasses[i].id : i \in 1..Len(p.annotationClasses)}

ImageIds(p) == {p.batchImages[i].id : i \in 1..Len(p.batchImages)}

AllAnnotations(p) ==
  UNION {Range(p.batchImages[i].annotations) : i \in 1..Len(p.batchImages)}

TotalAnnotations(p) ==
  LET count[i \in 0..Len(p.batchImages)] ==
        IF i = 0 THEN 0 ELSE count[i - 1] + Len(p.batchImages[i].annotations)
  IN  count[Len(p.batchImages)]

\* Identifiers that occur somewhere in the state, per kind.
UsedImageIds(p) == ImageIds(p) \cup ({p.activeImageId} \ {NoId})

UsedClassIds(p) ==
  ClassIds(p) \cup {a.classId : a \in AllAnnotations(p)}
    \cup {c.id : c \in Range(p.classToRename) \cup Range(p.classToDelete)}

UsedAnnotationIds(p) ==
  {a.id : a \in AllAnnotations(p)} \cup ({p.selectedAnnotationId} \ {NoId})

\* String.prototype.toLowerCase on the class names used here.
ToLowerCase(name) ==
  IF name = "A" THEN "a" ELSE IF name = "B" THEN "b" ELSE name

-----------------------------------------------------------------------------
(* Viewport transform.                                                     *)

\* container.getBoundingClientRect(): the size of the canvas container.
DisplayWidth == 20

DisplayHeight == 20

\* canvas.getBoundingClientRect(): the canvas origin in client coordinates.
RectLeft == 1

RectTop == 1

MIN_ZOOM == Rat(1, 10)

MAX_ZOOM == Num(10)

ANNOTATION_LINE_WIDTH == Num(2)

\* Faulty variant: the offset is taken off after the division by the zoom.
screenToImageCoords_OffsetAfterDivide(c, screen) ==
  Pt(RSub(RDiv(screen.x, c.zoom), c.offset.x),
     RSub(RDiv(screen.y, c.zoom), c.offset.y))

screenToImageCoords(c, screen) ==
  Pt(RDiv(RSub(screen.x, c.offset.x), c.zoom),
     RDiv(RSub(screen.y, c.offset.y), c.zoom))

imageToScreenCoords(c, image) ==
  Pt(RAdd(RMul(image.x, c.zoom), c.offset.x),
     RAdd(RMul(image.y, c.zoom), c.offset.y))

\* event.clientX - rect.left, event.clientY - rect.top
getCanvasMousePos(client) ==
  Pt(RSub(client.x, Num(RectLeft)), RSub(client.y, Num(RectTop)))

getImageMousePos(c, client) == screenToImageCoords(c, getCanvasMousePos(client))

\* The effect that recentres and fits the image when it changes.
FitToView(c, dims) ==
  IF dims.naturalWidth <= 0 \/ dims.naturalHeight <= 0 THEN c
  ELSE
    LET scaleX == Rat(DisplayWidth, dims.naturalWidth)
        scaleY == Rat(DisplayHeight, dims.naturalHeight)
        initialZoom == RMul(RMin(scaleX, scaleY), Rat(95, 100))
        initialOffsetX ==
          RDiv(RSub(Num(DisplayWidth), RMul(Num(dims.naturalWidth), initialZoom)), Num(2))
        initialOffsetY ==
          RDiv(RSub(Num(DisplayHeight), RMul(Num(dims.naturalHeight), initialZoom)), Num(2))
    IN  [c EXCEPT !.zoom = initialZoom,
                  !.offset = Pt(initialOffsetX, initialOffsetY)]

-----------------------------------------------------------------------------
(* What React does after a handler: render, then the effects.              *)

\* Effect: deselect the annotation when the tool is not 'select'.
DeselectEffect(p) ==
  IF p.currentTool # "select" /\ p.selectedAnnotationId # NoId
  THEN [p EXCEPT !.selectedAnnotationId = NoId]
  ELSE p

\* The canvas is rendered only while there is an active image; it fits the
\* view when it is mounted and whenever the image it shows changes.
MountEffect(before, after, c) ==
  IF ActiveImage(after) = None THEN CanvasInit
  ELSE IF ActiveImage(before) = None
       THEN FitToView(CanvasInit, ActiveImage(after)[1].dimensions)
  ELSE IF ActiveImage(before)[1].id # ActiveImage(after)[1].id
       THEN FitToView(c, ActiveImage(after)[1].dimensions)
  ELSE c

CommitAll(p, c, run, bud, sig, reading) ==
  LET p1 == DeselectEffect(p)
      c1 == MountEffect(Page, p1, c)
  IN  /\ batchImages' = p1.batchImages
      /\ activeImageId' = p1.activeImageId
      /\ annotationClasses' = p1.annotationClasses
      /\ currentTool' = p1.currentTool
      /\ selectedAnnotationId' = p1.selectedAnnotationId
      /\ pendingShapeData' = p1.pendingShapeData
      /\ isClassAssignmentDialogOpen' = p1.isClassAssignmentDialogOpen
      /\ isEditClassDialogOpen' = p1.isEditClassDialogOpen
      /\ isRenameClassDialogOpen' = p1.isRenameClassDialogOpen
      /\ classToRename' = p1.classToRename
      /\ classToDelete' = p1.classToDelete
      /\ isDeleteConfirmOpen' = p1.isDeleteConfirmOpen
      /\ isDrawing' = c1.isDrawing
      /\ startPoint' = c1.startPoint
      /\ currentPoints' = c1.currentPoints
      /\ isDraggingAnnotation' = c1.isDraggingAnnotation
      /\ dragStartOffset' = c1.dragStartOffset
      /\ zoom' = c1.zoom
      /\ offset' = c1.offset
      /\ isPanning' = c1.isPanning
      /\ panStart' = c1.panStart
      /\ pointer' = run
      /\ budget' = bud
      /\ signal' = sig
      /\ loading' = reading

\* A handler that starts and ends no reading of files.
Commit(p, c, run, bud, sig) == CommitAll(p, c, run, bud, sig, loading)

\* A handler of the page, run by a click outside the canvas: the canvas keeps
\* its state.
CommitPage(p, sig) == Commit(p, Canvas, Released, budget, sig)

Init ==
  /\ batchImages = PageInit.batchImages
  /\ activeImageId = PageInit.activeImageId
  /\ annotationClasses = PageInit.annotationClasses
  /\ currentTool = PageInit.currentTool
  /\ selectedAnnotationId = PageInit.selectedAnnotationId
  /\ pendingShapeData = PageInit.pendingShapeData
  /\ isClassAssignmentDialogOpen = PageInit.isClassAssignmentDialogOpen
  /\ isEditClassDialogOpen = PageInit.isEditClassDialogOpen
  /\ isRenameClassDialogOpen = PageInit.isRenameClassDialogOpen
  /\ classToRename = PageInit.classToRename
  /\ classToDelete = PageInit.classToDelete
  /\ isDeleteConfirmOpen = PageInit.isDeleteConfirmOpen
  /\ isDrawing = CanvasInit.isDrawing
  /\ startPoint = CanvasInit.startPoint
  /\ currentPoints = CanvasInit.currentPoints
  /\ isDraggingAnnotation = CanvasInit.isDraggingAnnotation
  /\ dragStartOffset = CanvasInit.dragStartOffset
  /\ zoom = CanvasInit.zoom
  /\ offset = CanvasInit.offset
  /\ isPanning = CanvasInit.isPanning
  /\ panStart = CanvasInit.panStart
  /\ pointer = Released
  /\ budget = 0
  /\ signal = Quiet("init")
  /\ loading = <<>>

-----------------------------------------------------------------------------
(* FieldQuadPage: batch image handling.                                    *)

\* The Dialog and AlertDialog components are modal: while one is open the
\* rest of the page receives no pointer input.
NoDialogOpen ==
  /\ ~isClassAssignmentDialogOpen
  /\ ~isEditClassDialogOpen
  /\ ~isRenameClassDialogOpen
  /\ ~isDeleteConfirmOpen

\* A control outside the canvas can be clicked: no dialog covers it and no
\* button is held down over the canvas.
PageReady == NoDialogOpen /\ pointer.held = {}

\* What the loader supplies for a file: its name fixes its natural size.
ImageDimensions(name) ==
  IF name = "wide.png" THEN [naturalWidth |-> 38, naturalHeight |-> 19]
  ELSE IF name = "huge.png" THEN [naturalWidth |-> 400, naturalHeight |-> 400]
  ELSE [naturalWidth |-> 19, naturalHeight |-> 19]

\* handleFileChange: one ImageState per selected file, each with a new id.
RECURSIVE NewImageStates(_, _)
NewImageStates(names, used) ==
  IF names = <<>> THEN <<>>
  ELSE LET id == FreshId(used)
       IN  <<[id |-> id, name |-> Head(names),
              dimensions |-> ImageDimensions(Head(names)),
              annotations |-> <<>>, cropArea |-> None]>>
           \o NewImageStates(Tail(names), used \cup {id})

handleBatchUpload(p, newImageStates) ==
  LET uniqueNewImages ==
        SelectSeq(newImageStates,
                  LAMBDA n : ~\E i \in 1..Len(p.batchImages) :
                                p.batchImages[i].name = n.name)
  IN  IF Len(uniqueNewImages) > 0
      THEN [p EXCEPT !.batchImages = p.batchImages \o uniqueNewImages,
                     !.activeImageId =
                        IF p.activeImageId = NoId THEN uniqueNewImages[1].id
                        ELSE p.activeImageId]
      ELSE p

HandleBatchUpload(names) ==
  LET newImageStates == NewImageStates(names, UsedImageIds(Page))
      p == handleBatchUpload(Page, newImageStates)
      skipped == Len(p.batchImages) - Len(batchImages) # Len(names)
  IN  /\ PageReady
      /\ Len(p.batchImages) <= MaxImages
      /\ CommitPage(p, Told("handleBatchUpload",
                            (IF skipped THEN <<"Duplicates Skipped">> ELSE <<>>)
                              \o <<"Images Loaded">>))

\* handleBatchUpload as made in the render `render` of the page and run when
\* the page holds p: batchImages and activeImageId are the values of that
\* render, and prev of setBatchImages(prev => ...) is the list of p.
handleBatchUploadOfRender(render, p, newImageStates) ==
  LET uniqueNewImages ==
        SelectSeq(newImageStates, LAMBDA n : n.name \notin render.batchNames)
  IN  IF Len(uniqueNewImages) > 0
      THEN [p EXCEPT !.batchImages = p.batchImages \o uniqueNewImages,
                     !.activeImageId =
                        IF render.activeImageId = NoId THEN uniqueNewImages[1].id
                        ELSE p.activeImageId]
      ELSE p

\* The names of the images of the batch.
BatchNames(p) == {p.batchImages[i].name : i \in 1..Len(p.batchImages)}

\* handleFileChange up to its await: files are chosen in the file input; the
\* ones whose name the batch of this render holds are skipped, the others
\* are handed to the readers.  The handler goes on when all are read, with
\* the onBatchUpload it was given in this render.
HandleFileChange(names) ==
  LET files == SelectSeq(names, LAMBDA name : name \notin BatchNames(Page))
  IN  /\ PageReady
      /\ Len(loading) < MaxLoading
      /\ CommitAll(Page, Canvas, Released, budget,
                   Told("handleFileChange",
                        IF Len(files) < Len(names) THEN <<"Duplicate Image">> ELSE <<>>),
                   IF files = <<>> THEN loading
                   ELSE Append(loading,
                               [files |-> files, batchNames |-> BatchNames(Page),
                                activeImageId |-> activeImageId]))

\* The orders in which the readers of the files can end: each pushes its
\* image when it is done.
ReadOrders(files) ==
  {order \in [1..Len(files) -> Range(files)] : Range(order) = Range(files)}

\* handleFileChange after its await: the images of the file selection
\* loading[k] are read, in some order, and onBatchUpload is called with
\* them.  It comes when the readers are done, whatever the page is showing.
ImagesLoaded(k) ==
  /\ k \in 1..Len(loading)
  /\ \E order \in ReadOrders(loading[k].files) :
     LET newImageStates == NewImageStates(order, UsedImageIds(Page))
         p == handleBatchUploadOfRender(loading[k], Page, newImageStates)
         skipped == Len(p.batchImages) - Len(batchImages) # Len(loading[k].files)
     IN  /\ Len(p.batchImages) <= MaxImages
         /\ CommitAll(p, Canvas, pointer, budget,
                      Told("handleBatchUpload",
                           (IF skipped THEN <<"Duplicates Skipped">> ELSE <<>>)
                             \o <<"Images Loaded">>),
                      SubSeq(loading, 1, k - 1) \o SubSeq(loading, k + 1, Len(loading)))

handleSelectImageFromBatch(p, id) ==
  IF id # p.activeImageId
  THEN [p EXCEPT !.activeImageId = id, !.selectedAnnotationId = NoId,
                 !.currentTool = "bbox", !.pendingShapeData = None,
                 !.isClassAssignmentDialogOpen = FALSE,
                 !.isEditClassDialogOpen = FALSE,
                 !.isRenameClassDialogOpen = FALSE, !.classToRename = None]
  ELSE p

HandleSelectImageFromBatch(id) ==
  /\ PageReady
  /\ id \in ImageIds(Page)
  /\ CommitPage(handleSelectImageFromBatch(Page, id),
                IF id # activeImageId
                THEN Told("handleSelectImageFromBatch", <<"Image Switched">>)
                ELSE Quiet("handleSelectImageFromBatch"))

\* Array.prototype.findIndex, 1-based; 0 when there is none.
FindIndex(s, Test(_)) ==
  IF \E i \in 1..Len(s) : Test(s[i])
  THEN CHOOSE i \in 1..Len(s) : Test(s[i]) /\ \A j \in 1..(i - 1) : ~Test(s[j])
  ELSE 0

handleRemoveImageFromBatch(p, idToRemove) ==
  IF idToRemove \notin ImageIds(p) THEN p
  ELSE
    LET prev == p.batchImages
        updatedBatch == SelectSeq(prev, LAMBDA img : img.id # idToRemove)
        removedIndex == FindIndex(prev, LAMBDA img : img.id = idToRemove) - 1
        nextActiveIndex == IF removedIndex - 1 > 0 THEN removedIndex - 1 ELSE 0
        newActive ==
          IF p.activeImageId # idToRemove THEN p.activeImageId
          ELSE IF Len(updatedBatch) > 0 THEN updatedBatch[nextActiveIndex + 1].id
          ELSE NoId
        p1 == [p EXCEPT !.batchImages = updatedBatch,
                        !.activeImageId = newActive,
                        !.selectedAnnotationId = NoId]
    IN  IF p.activeImageId = idToRemove /\ Len(prev) = 1
        THEN [p1 EXCEPT !.currentTool = "bbox", !.pendingShapeData = None,
                        !.isClassAssignmentDialogOpen = FALSE,
                        !.isEditClassDialogOpen = FALSE,
                        !.isRenameClassDialogOpen = FALSE,
                        !.classToRename = None]
        ELSE p1

HandleRemoveImageFromBatch(idToRemove) ==
  /\ PageReady
  /\ idToRemove \in ImageIds(Page)
  /\ CommitPage(handleRemoveImageFromBatch(Page, idToRemove),
                Told("handleRemoveImageFromBatch", <<"Image Removed">>))

-----------------------------------------------------------------------------
(* FieldQuadPage: annotations of the active image.                         *)

\* setBatchImages(prev => prev.map(img => img.id === activeImageId ? ... : img))
MapActiveAnnotations(p, F(_)) ==
  [p EXCEPT !.batchImages =
     [i \in 1..Len(p.batchImages) |->
        IF p.batchImages[i].id = p.activeImageId
        THEN [p.batchImages[i] EXCEPT !.annotations = F(p.batchImages[i].annotations)]
        ELSE p.batchImages[i]]]

\* Faulty variant: the list is stored in every image of the batch.
handleAnnotationsChange_EveryImage(p, updatedAnnotations) ==
  IF p.activeImageId = NoId THEN p
  ELSE [p EXCEPT !.batchImages =
          [i \in 1..Len(p.batchImages) |->
             [p.batchImages[i] EXCEPT !.annotations = updatedAnnotations]]]

handleAnnotationsChange(p, updatedAnnotations) ==
  IF p.activeImageId = NoId THEN p
  ELSE MapActiveAnnotations(p, LAMBDA anns : updatedAnnotations)

\* The toast handleShapeDrawn refuses a shape with, if it refuses it.
ShapeRefusal(p) ==
  IF ActiveImage(p) = None THEN <<"No Active Image">>
  ELSE IF Len(p.annotationClasses) = 0 THEN <<"No Classes Defined">>
  ELSE <<>>

\* Faulty variant: a shape is taken although no class exists.
handleShapeDrawn_NoClassCheck(p, shape) ==
  IF ActiveImage(p) = None THEN p
  ELSE [p EXCEPT !.pendingShapeData = Some(shape),
                 !.isClassAssignmentDialogOpen = TRUE,
                 !.selectedAnnotationId = NoId]

handleShapeDrawn(p, shape) ==
  IF ShapeRefusal(p) # <<>> THEN p
  ELSE [p EXCEPT !.pendingShapeData = Some(shape),
                 !.isClassAssignmentDialogOpen = TRUE,
                 !.selectedAnnotationId = NoId]

handleAssignClassToShape(p, classId) ==
  IF p.pendingShapeData = None \/ p.activeImageId = NoId THEN p
  ELSE
    LET newAnnotation ==
          [id |-> FreshId(UsedAnnotationIds(p)), classId |-> classId,
           type |-> p.pendingShapeData[1].type,
           points |-> p.pendingShapeData[1].points]
        p1 == MapActiveAnnotations(p, LAMBDA anns : Append(anns, newAnnotation))
    IN  [p1 EXCEPT !.pendingShapeData = None,
                   !.isClassAssignmentDialogOpen = FALSE]

\* A class button of the "Assign Class to Annotation" dialog.
HandleAssignClassToShape(classId) ==
  /\ isClassAssignmentDialogOpen
  /\ classId \in ClassIds(Page)
  /\ TotalAnnotations(Page) < MaxAnnotations
  /\ CommitPage(handleAssignClassToShape(Page, classId),
                IF pendingShapeData = None \/ activeImageId = NoId
                THEN Quiet("handleAssignClassToShape")
                ELSE Told("handleAssignClassToShape", <<"Annotation Added">>))

\* "Cancel & Discard Shape", or the dialog closed otherwise.
CancelClassAssignment ==
  /\ isClassAssignmentDialogOpen
  /\ CommitPage([Page EXCEPT !.pendingShapeData = None,
                             !.isClassAssignmentDialogOpen = FALSE],
                Quiet("cancelClassAssignment"))

handleDeleteSelectedAnnotation(p) ==
  IF p.selectedAnnotationId = NoId \/ p.activeImageId = NoId THEN p
  ELSE [MapActiveAnnotations(p,
          LAMBDA anns : SelectSeq(anns, LAMBDA ann : ann.id # p.selectedAnnotationId))
        EXCEPT !.selectedAnnotationId = NoId]

HandleDeleteSelectedAnnotation ==
  /\ PageReady
  /\ currentTool = "select"
  /\ activeImageId # NoId
  /\ selectedAnnotationId # NoId
  /\ CommitPage(handleDeleteSelectedAnnotation(Page),
                IF selectedAnnotationId = NoId \/ activeImageId = NoId
                THEN Quiet("handleDeleteSelectedAnnotation")
                ELSE Told("handleDeleteSelectedAnnotation", <<"Annotation Deleted">>))

\* The tag names of text-editing controls, where a key press is left alone.
TextEditingTags == {"INPUT", "TEXTAREA", "SELECT"}

\* Faulty variant: the target of the key press is not looked at.
handleKeyDown_AnyTarget(p, key, tagName) ==
  IF p.selectedAnnotationId # NoId /\ key \in {"Delete", "Backspace"}
  THEN handleDeleteSelectedAnnotation(p)
  ELSE p

\* The keydown listener of the document.
handleKeyDown(p, key, tagName) ==
  IF p.selectedAnnotationId # NoId /\ key \in {"Delete", "Backspace"}
  THEN IF tagName \in TextEditingTags THEN p
       ELSE handleDeleteSelectedAnnotation(p)
  ELSE p

\* A key goes down while the element with the tag name has the focus.  The
\* listener is on the document, so no dialog keeps the event from it.
HandleKeyDown(key, tagName) ==
  LET p == handleKeyDown(Page, key, tagName)
  IN  Commit(p, Canvas, pointer, budget,
             [op |-> "handleKeyDown",
              toast |-> IF p # Page THEN <<"Annotation Deleted">> ELSE <<>>,
              shape |-> None, file |-> None,
              event |-> [key |-> key, tagName |-> tagName]])

\* The "Change Class" button of the toolbar, shown with the select tool.
HandleOpenEditClassDialog ==
  /\ PageReady
  /\ currentTool = "select"
  /\ activeImageId # NoId
  /\ selectedAnnotationId # NoId
  /\ IF selectedAnnotationId = NoId
     THEN CommitPage(Page, Told("handleOpenEditClassDialog", <<"No Annotation Selected">>))
     ELSE IF Len(annotationClasses) = 0
     THEN CommitPage(Page, Told("handleOpenEditClassDialog", <<"No Classes Available">>))
     ELSE CommitPage([Page EXCEPT !.isEditClassDialogOpen = TRUE],
                     Quiet("handleOpenEditClassDialog"))

\* Faulty variant: every annotation of the active image takes the class.
handleChangeAnnotationClass_EveryAnnotation(p, newClassId) ==
  IF p.selectedAnnotationId = NoId \/ p.activeImageId = NoId THEN p
  ELSE [MapActiveAnnotations(p,
          LAMBDA anns : [i \in 1..Len(anns) |-> [anns[i] EXCEPT !.classId = newClassId]])
        EXCEPT !.isEditClassDialogOpen = FALSE]

handleChangeAnnotationClass(p, newClassId) ==
  IF p.selectedAnnotationId = NoId \/ p.activeImageId = NoId THEN p
  ELSE [MapActiveAnnotations(p,
          LAMBDA anns : [i \in 1..Len(anns) |->
                           IF anns[i].id = p.selectedAnnotationId
                           THEN [anns[i] EXCEPT !.classId = newClassId]
                           ELSE anns[i]])
        EXCEPT !.isEditClassDialogOpen = FALSE]

\* A class button of the "Change Annotation Class" dialog.
HandleChangeAnnotationClass(newClassId) ==
  /\ isEditClassDialogOpen
  /\ newClassId \in ClassIds(Page)
  /\ CommitPage(handleChangeAnnotationClass(Page, newClassId),
                IF selectedAnnotationId = NoId \/ activeImageId = NoId
                THEN Quiet("handleChangeAnnotationClass")
                ELSE Told("handleChangeAnnotationClass", <<"Annotation Class Changed">>))

CloseEditClassDialog ==
  /\ isEditClassDialogOpen
  /\ CommitPage([Page EXCEPT !.isEditClassDialogOpen = FALSE],
                Quiet("closeEditClassDialog"))

-----------------------------------------------------------------------------
(* FieldQuadPage: class management.                                        *)

\* A variant that compares the names as typed.
FindClassByName_AsTyped(p, name, exceptId) ==
  FindIndex(p.annotationClasses,
            LAMBDA ac : ac.name = name /\ ac.id # exceptId)

\* The class with a name equal to `name` ignoring case, other than `exceptId`.
FindClassByName(p, name, exceptId) ==
  FindIndex(p.annotationClasses,
            LAMBDA ac : ToLowerCase(ac.name) = ToLowerCase(name) /\ ac.id # exceptId)

handleCreateClass(p, name) ==
  IF FindClassByName(p, name, NoId) # 0 THEN p
  ELSE [p EXCEPT !.annotationClasses =
          Append(p.annotationClasses,
                 [id |-> FreshId(UsedClassIds(p)), name |-> name])]

\* The toolbar's "Add" with a non-blank name typed (names carry no blanks).
HandleCreateClass(name) ==
  /\ PageReady
  /\ FindClassByName(Page, name, NoId) = 0 => Len(annotationClasses) < MaxClasses
  /\ CommitPage(handleCreateClass(Page, name),
                IF FindClassByName(Page, name, NoId) # 0
                THEN Told("handleCreateClass", <<"Class Exists">>)
                ELSE Told("handleCreateClass", <<"Class Created">>))

handleDeleteClass(p, classIdToDelete) ==
  LET k == FindIndex(p.annotationClasses, LAMBDA ac : ac.id = classIdToDelete)
  IN  IF k = 0 THEN p
      ELSE [p EXCEPT !.classToDelete = Some(p.annotationClasses[k]),
                     !.isDeleteConfirmOpen = TRUE]

\* The trash button of a class row.
HandleDeleteClass(classIdToDelete) ==
  /\ PageReady
  /\ classIdToDelete \in ClassIds(Page)
  /\ CommitPage(handleDeleteClass(Page, classIdToDelete), Quiet("handleDeleteClass"))

\* Faulty variant: the filter keeps the class's annotations and drops the rest.
RemoveClassAnnotations_Inverted(annotations, classId) ==
  SelectSeq(annotations, LAMBDA ann : ann.classId = classId)

\* Faulty variant: the class goes, its annotations stay.
RemoveClassAnnotations_NoCascade(annotations, classId) == annotations

\* Step 2 of confirmDeleteClass: drop the class's annotations from one image.
RemoveClassAnnotations(annotations, classId) ==
  SelectSeq(annotations, LAMBDA ann : ann.classId # classId)

\* Faulty variant: the selection is left as it is.
confirmDeleteClass_KeepsSelection(p) ==
  IF p.classToDelete = None THEN p
  ELSE
    LET gone == p.classToDelete[1].id
    IN  [p EXCEPT
           !.annotationClasses =
              SelectSeq(p.annotationClasses, LAMBDA ac : ac.id # gone),
           !.batchImages =
              [i \in 1..Len(p.batchImages) |->
                 [p.batchImages[i] EXCEPT
                    !.annotations = RemoveClassAnnotations(p.batchImages[i].annotations, gone)]],
           !.isDeleteConfirmOpen = FALSE,
           !.classToDelete = None]

confirmDeleteClass(p) ==
  IF p.classToDelete = None THEN p
  ELSE
    LET gone == p.classToDelete[1].id
        sel == SelectSeq(ActiveAnnotations(p),
                         LAMBDA ann : ann.id = p.selectedAnnotationId)
    IN  [p EXCEPT
           !.annotationClasses =
              SelectSeq(p.annotationClasses, LAMBDA ac : ac.id # gone),
           !.batchImages =
              [i \in 1..Len(p.batchImages) |->
                 [p.batchImages[i] EXCEPT
                    !.annotations = RemoveClassAnnotations(p.batchImages[i].annotations, gone)]],
           !.selectedAnnotationId =
              IF sel # <<>> /\ sel[1].classId = gone THEN NoId
              ELSE p.selectedAnnotationId,
           !.isDeleteConfirmOpen = FALSE,
           !.classToDelete = None]

\* "Delete Class & Annotations" of the confirmation dialog.
ConfirmDeleteClass ==
  /\ isDeleteConfirmOpen
  /\ CommitPage(confirmDeleteClass(Page),
                IF classToDelete = None THEN Quiet("confirmDeleteClass")
                ELSE Told("confirmDeleteClass", <<"Class Deleted">>))

\* "Cancel" of the confirmation dialog.
CancelDeleteClass ==
  /\ isDeleteConfirmOpen
  /\ CommitPage([Page EXCEPT !.classToDelete = None, !.isDeleteConfirmOpen = FALSE],
                Quiet("cancelDeleteClass"))

handleOpenRenameDialog(p, classIdToRename) ==
  LET k == FindIndex(p.annotationClasses, LAMBDA ac : ac.id = classIdToRename)
  IN  IF k = 0 THEN p
      ELSE [p EXCEPT !.classToRename = Some(p.annotationClasses[k]),
                     !.isRenameClassDialogOpen = TRUE]

\* The pencil button of a class row.
HandleOpenRenameDialog(classIdToRename) ==
  /\ PageReady
  /\ classIdToRename \in ClassIds(Page)
  /\ CommitPage(handleOpenRenameDialog(Page, classIdToRename),
                Quiet("handleOpenRenameDialog"))

handleRenameClass(p, newClassNameInput) ==
  IF p.classToRename = None THEN p
  ELSE IF FindClassByName(p, newClassNameInput, p.classToRename[1].id) # 0 THEN p
  ELSE [p EXCEPT
          !.annotationClasses =
             [i \in 1..Len(p.annotationClasses) |->
                IF p.annotationClasses[i].id = p.classToRename[1].id
                THEN [p.annotationClasses[i] EXCEPT !.name = newClassNameInput]
                ELSE p.annotationClasses[i]],
          !.isRenameClassDialogOpen = FALSE,
          !.classToRename = None]

\* "Save Changes" (or Enter) of the rename dialog with a non-blank name typed.
HandleRenameClass(newClassNameInput) ==
  /\ isRenameClassDialogOpen
  /\ CommitPage(handleRenameClass(Page, newClassNameInput),
                IF classToRename = None THEN Quiet("handleRenameClass")
                ELSE IF FindClassByName(Page, newClassNameInput, classToRename[1].id) # 0
                THEN Told("handleRenameClass", <<"Name Exists">>)
                ELSE Told("handleRenameClass", <<"Class Renamed">>))

\* The rename dialog closed without saving.
CloseRenameDialog ==
  /\ isRenameClassDialogOpen
  /\ CommitPage([Page EXCEPT !.isRenameClassDialogOpen = FALSE, !.classToRename = None],
                Quiet("closeRenameDialog"))

\* handleSelectAnnotation (the canvas's onSelectAnnotation).
handleSelectAnnotation(p, id) ==
  IF id # NoId
  THEN [p EXCEPT !.selectedAnnotationId = id, !.currentTool = "select"]
  ELSE [p EXCEPT !.selectedAnnotationId = NoId]

\* The toolbar's tool menu: disabled without an active image; the drawing
\* tools are disabled until a class exists.
SetCurrentTool(tool) ==
  /\ PageReady
  /\ activeImageId # NoId
  /\ tool \in {"bbox", "polygon", "freehand"} => Len(annotationClasses) > 0
  /\ CommitPage([Page EXCEPT !.currentTool = tool], Quiet("setCurrentTool"))

-----------------------------------------------------------------------------
(* AnnotationCanvas: hit-testing.                                          *)

\* (b - a) x (q - a): positive when q lies to the left of the edge a -> b.
Cross(a, b, q) ==
  RSub(RMul(RSub(b.x, a.x), RSub(q.y, a.y)),
       RMul(RSub(q.x, a.x), RSub(b.y, a.y)))

OnSegment(a, b, q) ==
  /\ Cross(a, b, q) = Num(0)
  /\ RLe(RMin(a.x, b.x), q.x) /\ RLe(q.x, RMax(a.x, b.x))
  /\ RLe(RMin(a.y, b.y), q.y) /\ RLe(q.y, RMax(a.y, b.y))

\* CanvasRenderingContext2D.isPointInPath for a path of one subpath, given by
\* its vertices: non-zero winding rule, the subpath taken as closed, and a
\* point on the path itself counted as inside.
IsPointInPath(path, q) ==
  LET n == Len(path)
      Next1(i) == IF i = n THEN 1 ELSE i + 1
      Turn(i) ==
        LET a == path[i]
            b == path[Next1(i)]
        IN  IF RLe(a.y, q.y)
            THEN IF RLt(q.y, b.y) /\ RLt(Num(0), Cross(a, b, q)) THEN 1 ELSE 0
            ELSE IF RLe(b.y, q.y) /\ RLt(Cross(a, b, q), Num(0)) THEN -1 ELSE 0
      winding[i \in 0..n] == IF i = 0 THEN 0 ELSE winding[i - 1] + Turn(i)
  IN  \/ winding[n] # 0
      \/ \E i \in 1..n : OnSegment(path[i], path[Next1(i)], q)

\* path.rect(minX, minY, width, height)
RectPath(p1, p2) ==
  LET minX == RMin(p1.x, p2.x)
      minY == RMin(p1.y, p2.y)
      width == RAbs(RSub(p1.x, p2.x))
      height == RAbs(RSub(p1.y, p2.y))
  IN  <<Pt(minX, minY), Pt(RAdd(minX, width), minY),
        Pt(RAdd(minX, width), RAdd(minY, height)), Pt(minX, RAdd(minY, height))>>

\* A variant that takes a stroke as drawn, not as the outline of a region.
isPointInsideAnnotationPath_OpenStroke(point, annotation) ==
  IF annotation.type = "bbox" /\ Len(annotation.points) = 2
  THEN IsPointInPath(RectPath(annotation.points[1], annotation.points[2]), point)
  ELSE IF annotation.type = "polygon" /\ Len(annotation.points) > 1
  THEN IsPointInPath(annotation.points, point)
  ELSE IF annotation.type = "freehand" /\ Len(annotation.points) > 1
  THEN \E i \in 1..(Len(annotation.points) - 1) :
         OnSegment(annotation.points[i], annotation.points[i + 1], point)
  ELSE FALSE

isPointInsideAnnotationPath(point, annotation) ==
  IF annotation.type = "bbox" /\ Len(annotation.points) = 2
  THEN IsPointInPath(RectPath(annotation.points[1], annotation.points[2]), point)
  ELSE IF annotation.type \in {"polygon", "freehand"} /\ Len(annotation.points) > 1
  THEN IsPointInPath(annotation.points, point)
  ELSE FALSE

\* Faulty variant: the loop runs first to last.
ClickedAnnotation_FirstToLast(annotations, pos) ==
  LET hits == {i \in 1..Len(annotations) :
                 isPointInsideAnnotationPath(pos, annotations[i])}
  IN  IF hits = {} THEN 0 ELSE CHOOSE i \in hits : \A j \in hits : i <= j

\* The loop of handleMouseDown over annotations, last to first: the index of
\* the clicked annotation, 0 if there is none.
ClickedAnnotation(annotations, pos) ==
  LET hits == {i \in 1..Len(annotations) :
                 isPointInsideAnnotationPath(pos, annotations[i])}
  IN  IF hits = {} THEN 0 ELSE CHOOSE i \in hits : \A j \in hits : j <= i

-----------------------------------------------------------------------------
(* ExportControls: area of an annotation.                                  *)

\* Faulty variant: the edge from the last point back to the first is left out.
calculatePolygonArea_NoWraparound(points) ==
  LET n == Len(points)
      Term(i) ==
        LET p1 == points[i]
            p2 == points[i + 1]
        IN  RSub(RMul(p1.x, p2.y), RMul(p2.x, p1.y))
      area[i \in 0..(n - 1)] == IF i = 0 THEN Num(0) ELSE RAdd(area[i - 1], Term(i))
  IN  IF n < 3 THEN Num(0) ELSE RDiv(RAbs(area[n - 1]), Num(2))

\* Shoelace formula.
calculatePolygonArea(points) ==
  LET n == Len(points)
      Term(i) ==
        LET p1 == points[i]
            p2 == points[IF i = n THEN 1 ELSE i + 1]
        IN  RSub(RMul(p1.x, p2.y), RMul(p2.x, p1.y))
      area[i \in 0..n] == IF i = 0 THEN Num(0) ELSE RAdd(area[i - 1], Term(i))
  IN  IF n < 3 THEN Num(0) ELSE RDiv(RAbs(area[n]), Num(2))

calculateSingleAnnotationArea(annotation) ==
  IF annotation.type = "bbox" /\ Len(annotation.points) = 2
  THEN RMul(RAbs(RSub(annotation.points[1].x, annotation.points[2].x)),
            RAbs(RSub(annotation.points[1].y, annotation.points[2].y)))
  ELSE IF annotation.type \in {"polygon", "freehand"} /\ Len(annotation.points) >= 3
  THEN calculatePolygonArea(annotation.points)
  ELSE Num(0)

-----------------------------------------------------------------------------
(* ExportControls: the coverage dataset.                                   *)

RECURSIVE Pow10(_)
Pow10(digits) == IF digits = 0 THEN 1 ELSE 10 * Pow10(digits - 1)

\* parseFloat(x.toFixed(digits)): x rounded to `digits` decimals, a tie going
\* away from zero.
ToFixed(x, digits) ==
  LET a == RAbs(x)
      n == (2 * a[1] * Pow10(digits) + a[2]) \div (2 * a[2])
  IN  Rat(IF x[1] < 0 THEN -n ELSE n, Pow10(digits))

\* Faulty variant: the crop is ignored.
getEffectiveDimensions_IgnoresCrop(imgState) ==
  IF imgState.dimensions # None
  THEN Some([width |-> Num(imgState.dimensions.naturalWidth),
             height |-> Num(imgState.dimensions.naturalHeight)])
  ELSE None

getEffectiveDimensions(imgState) ==
  IF imgState.cropArea # None
  THEN Some([width |-> imgState.cropArea[1].width,
             height |-> imgState.cropArea[1].height])
  ELSE IF imgState.dimensions # None
  THEN Some([width |-> Num(imgState.dimensions.naturalWidth),
             height |-> Num(imgState.dimensions.naturalHeight)])
  ELSE None

\* annotationsForClass.reduce((sum, ann) => sum + area(ann), 0)
TotalArea(annotations) ==
  LET sum[i \in 0..Len(annotations)] ==
        IF i = 0 THEN Num(0)
        ELSE RAdd(sum[i - 1], calculateSingleAnnotationArea(annotations[i]))
  IN  sum[Len(annotations)]

\* The entries prepareExportData pushes for one image.
ImageExportData(imgState, classes) ==
  LET effectiveDims == getEffectiveDimensions(imgState)
      totalImageArea == RMul(effectiveDims[1].width, effectiveDims[1].height)
      Item(index, count, area, percentage) ==
        [imageName |-> imgState.name,
         effectiveWidth |-> effectiveDims[1].width,
         effectiveHeight |-> effectiveDims[1].height,
         isCropped |-> imgState.cropArea # None,
         originalWidth |-> imgState.dimensions.naturalWidth,
         originalHeight |-> imgState.dimensions.naturalHeight,
         cropArea |-> imgState.cropArea,
         classId |-> classes[index].id, className |-> classes[index].name,
         numericId |-> index - 1,
         annotationCount |-> count, totalPixelArea |-> area,
         percentageCoverage |-> percentage]
      ClassItem(index) ==
        LET annotationsForClass ==
              SelectSeq(imgState.annotations,
                        LAMBDA ann : ann.classId = classes[index].id)
            totalAreaForClass == TotalArea(annotationsForClass)
            percentageCoverage ==
              RMul(RDiv(totalAreaForClass, totalImageArea), Num(100))
        IN  Item(index, Len(annotationsForClass), ToFixed(totalAreaForClass, 2),
                 ToFixed(percentageCoverage, 2))
  IN  IF effectiveDims = None THEN <<>>
      ELSE IF RLe(totalImageArea, Num(0)) THEN <<>>
      ELSE [index \in 1..Len(classes) |-> ClassItem(index)]
           \o (IF Len(imgState.annotations) = 0
               THEN [index \in 1..Len(classes) |-> Item(index, 0, Num(0), Num(0))]
               ELSE <<>>)

\* prepareExportData: the dataset, or none and the toast that says why.
prepareExportData(images, classes) ==
  LET all[i \in 0..Len(images)] ==
        IF i = 0 THEN <<>> ELSE all[i - 1] \o ImageExportData(images[i], classes)
      allExportData == all[Len(images)]
  IN  IF Len(images) = 0 THEN [data |-> None, toast |-> <<"No Images">>]
      ELSE IF Len(classes) = 0 THEN [data |-> None, toast |-> <<"No Classes">>]
      ELSE IF \E i \in 1..Len(images) : getEffectiveDimensions(images[i]) = None
      THEN [data |-> None, toast |-> <<"Missing Data">>]
      ELSE IF Len(allExportData) = 0 THEN [data |-> None, toast |-> <<"No Data">>]
      ELSE [data |-> Some(allExportData), toast |-> <<>>]

\* The image names of a dataset, each once, in the order of first occurrence.
UniqueImageNames(data) ==
  LET names[i \in 0..Len(data)] ==
        IF i = 0 THEN <<>>
        ELSE IF \E h \in 1..Len(names[i - 1]) : names[i - 1][h] = data[i].imageName
        THEN names[i - 1]
        ELSE Append(names[i - 1], data[i].imageName)
  IN  names[Len(data)]

\* a.localeCompare(b) < 0 on the class names in use: the rank of a name.
localeCompareRank(name) == IF name = "a" THEN 1 ELSE IF name = "b" THEN 2 ELSE 3

\* seq.sort((a, b) => a.name.localeCompare(b.name)), the name being the
\* field `key` of an entry: stable, by rank of name.
sortByName(seq, key) ==
  SelectSeq(seq, LAMBDA e : localeCompareRank(e[key]) = 1)
    \o SelectSeq(seq, LAMBDA e : localeCompareRank(e[key]) = 2)
    \o SelectSeq(seq, LAMBDA e : localeCompareRank(e[key]) = 3)

\* The fields of an item that describe its image.
ImageInfo(item) ==
  [name |-> item.imageName,
   effectiveWidth |-> item.effectiveWidth, effectiveHeight |-> item.effectiveHeight,
   isCropped |-> item.isCropped,
   originalWidth |-> item.originalWidth, originalHeight |-> item.originalHeight,
   cropArea |-> item.cropArea]

\* The three cells of a class in the row of an image: from the last entry of
\* the dataset for the image name and the class id, or 0, 0.00, 0.00.
csvStats(data, imageName, ac) ==
  LET found == {i \in 1..Len(data) :
                  data[i].imageName = imageName /\ data[i].classId = ac.id}
      stats == data[CHOOSE i \in found : \A h \in found : h <= i]
  IN  IF found # {}
      THEN [annotationCount |-> stats.annotationCount,
            totalPixelArea |-> ToFixed(stats.totalPixelArea, 2),
            percentageCoverage |-> ToFixed(stats.percentageCoverage, 2)]
      ELSE [annotationCount |-> 0, totalPixelArea |-> Num(0),
            percentageCoverage |-> Num(0)]

\* generateExportFileContent: what the file of a format says, as the values
\* it holds in the order it holds them.
generateExportFileContent(data, classes, format) ==
  LET names == UniqueImageNames(data)
      First(name) == data[CHOOSE i \in 1..Len(data) :
                            /\ data[i].imageName = name
                            /\ \A h \in 1..(i - 1) : data[h].imageName # name]
      OfImage(name) == SelectSeq(data, LAMBDA item : item.imageName = name)
      sortedClasses == sortByName(classes, "name")
  IN  IF format = "json"
      THEN [annotationClasses |->
              [index \in 1..Len(classes) |->
                 [id |-> index - 1, name |-> classes[index].name]],
            images |->
              [n \in 1..Len(names) |->
                 [imageInfo |-> ImageInfo(First(names[n])),
                  coverageStats |->
                    [h \in 1..Len(OfImage(names[n])) |->
                       LET item == OfImage(names[n])[h]
                       IN  [classId |-> item.classId, className |-> item.className,
                            numericId |-> item.numericId,
                            annotationCount |-> item.annotationCount,
                            totalPixelArea |-> item.totalPixelArea,
                            percentageCoverage |-> item.percentageCoverage]]]]]
      ELSE IF format = "txt"
      THEN [images |->
              [n \in 1..Len(names) |->
                 [imageInfo |-> ImageInfo(First(names[n])),
                  coverageStats |->
                    LET statsForImage == sortByName(OfImage(names[n]), "className")
                    IN  [h \in 1..Len(statsForImage) |->
                           [className |-> statsForImage[h].className,
                            annotationCount |-> statsForImage[h].annotationCount,
                            totalPixelArea |->
                              ToFixed(statsForImage[h].totalPixelArea, 2),
                            percentageCoverage |->
                              ToFixed(statsForImage[h].percentageCoverage, 2)]]]]]
      ELSE IF format = "csv"
      THEN [classHeaders |->
              [k \in 1..Len(sortedClasses) |-> sortedClasses[k].name],
            rows |->
              [n \in 1..Len(names) |->
                 [imageInfo |-> ImageInfo(First(names[n])),
                  coverageStats |->
                    [k \in 1..Len(sortedClasses) |->
                       csvStats(data, names[n], sortedClasses[k])]]]]
      ELSE <<>>

\* The export button and its menu items are disabled.
exportDisabled(images, classes) ==
  \/ Len(images) = 0
  \/ Len(classes) = 0
  \/ \E i \in 1..Len(images) : getEffectiveDimensions(images[i]) = None

\* handleExportData: the file handed to downloadFile, if any, and the toasts.
\* The file is kept as its name, its content and the dataset that the
\* content is written from.
handleExportData(images, classes, format) ==
  LET exportData == prepareExportData(images, classes)
  IN  IF exportData.data = None
      THEN [op |-> "handleExportData", toast |-> exportData.toast,
            shape |-> None, file |-> None]
      ELSE [op |-> "handleExportData", toast |-> <<"Export Successful">>,
            shape |-> None,
            file |-> Some([filename |-> "fieldquad_batch_data." \o format,
                           data |-> exportData.data[1],
                           content |->
                             generateExportFileContent(exportData.data[1], classes,
                                                       format)])]

\* An item of the "Export Dimensions & Coverage..." menu.
HandleExportData(format) ==
  /\ PageReady
  /\ ~exportDisabled(batchImages, annotationClasses)
  /\ CommitPage(Page, handleExportData(batchImages, annotationClasses, format))

-----------------------------------------------------------------------------
(* CropDialog. The four number fields hold what was typed into them; the   *)
(* value of a number field is never NaN (an unreadable entry reads as 0).  *)

\* Math.round: the nearest integer, a half going up.
MathRound(v) == Num((2 * v[1] + v[2]) \div (2 * v[2]))

\* handleApply: None when the values are turned down, else the crop area
\* handed to onApplyCrop.
handleApply(x, y, width, height, originalDims) ==
  IF \/ RLe(width, Num(0)) \/ RLe(height, Num(0))
     \/ RLt(x, Num(0)) \/ RLt(y, Num(0))
     \/ RLt(Num(originalDims.naturalWidth), RAdd(x, width))
     \/ RLt(Num(originalDims.naturalHeight), RAdd(y, height))
  THEN None
  ELSE Some([x |-> MathRound(x), y |-> MathRound(y),
             width |-> MathRound(width), height |-> MathRound(height)])

\* onApplyCrop of the page: the image takes the crop area, and loses its
\* annotations when the crop area is another one than before.
handleApplyCrop(p, imageId, cropArea) ==
  [p EXCEPT !.batchImages =
     [i \in 1..Len(p.batchImages) |->
        LET img == p.batchImages[i]
        IN  IF img.id = imageId /\ img.cropArea # cropArea
            THEN [img EXCEPT !.cropArea = cropArea, !.annotations = <<>>]
            ELSE img]]

\* What the crop dialog emitted: a toast, and the crop area handed on.
Cropped(op, titles, typed, handed) ==
  [op |-> op, toast |-> titles, shape |-> None, file |-> None,
   typed |-> typed, crop |-> handed]

\* "Apply Crop", with the dialog open on the active image.
HandleApply(x, y, width, height) ==
  /\ PageReady
  /\ ActiveImage(Page) # None
  /\ ActiveImage(Page)[1].dimensions # None
  /\ LET imageState == ActiveImage(Page)[1]
         newCropArea == handleApply(x, y, width, height, imageState.dimensions)
         typed == [x |-> x, y |-> y, width |-> width, height |-> height]
     IN  IF newCropArea = None
         THEN CommitPage(Page, Cropped("handleApply", <<"Invalid Crop Values">>,
                                       Some(typed), None))
         ELSE CommitPage(handleApplyCrop(Page, imageState.id, newCropArea),
                         Cropped("handleApply", <<>>, Some(typed), newCropArea))

\* "Reset": the crop is taken off the image.
HandleReset ==
  /\ PageReady
  /\ ActiveImage(Page) # None
  /\ ActiveImage(Page)[1].dimensions # None
  /\ CommitPage(handleApplyCrop(Page, ActiveImage(Page)[1].id, None),
                Cropped("handleReset", <<"Crop Reset">>, None, None))

-----------------------------------------------------------------------------
(* ExportControls, the revision with two menus: annotation coordinates and *)
(* coverage relative to the natural image size.  A file is kept as its     *)
(* name and the values written into it, in the order they are written.     *)

formatPointForExport(point, coordFormat, currentImageDimensions) ==
  IF /\ coordFormat = "normalized"
     /\ currentImageDimensions # None
     /\ currentImageDimensions.naturalWidth > 0
     /\ currentImageDimensions.naturalHeight > 0
  THEN [x |-> ToFixed(RDiv(point.x, Num(currentImageDimensions.naturalWidth)), 6),
        y |-> ToFixed(RDiv(point.y, Num(currentImageDimensions.naturalHeight)), 6)]
  ELSE [x |-> ToFixed(point.x, 2), y |-> ToFixed(point.y, 2)]

\* Faulty variant: a box is written with its points as stored.
pointsToExport_AsStored(ann) == ann.points

\* The points written for an annotation: a box by its least and greatest corner.
pointsToExport(ann) ==
  IF ann.type = "bbox" /\ Len(ann.points) = 2
  THEN <<[x |-> RMin(ann.points[1].x, ann.points[2].x),
          y |-> RMin(ann.points[1].y, ann.points[2].y)],
         [x |-> RMax(ann.points[1].x, ann.points[2].x),
          y |-> RMax(ann.points[1].y, ann.points[2].y)]>>
  ELSE ann.points

\* Faulty variant: the index of the annotation's class is replaced by 0.
classIdToNumericIdMap_Zero(classes, classId) ==
  IF \E index \in 1..Len(classes) : classes[index].id = classId
  THEN Some(0)
  ELSE None

\* classIdToNumericIdMap.get(classId): the index set last for the id, if any.
classIdToNumericIdMap(classes, classId) ==
  LET found == {index \in 1..Len(classes) : classes[index].id = classId}
  IN  IF found = {} THEN None
      ELSE Some((CHOOSE index \in found : \A other \in found : other <= index) - 1)

\* The annotations of an image as written: those of no class are left out.
FormattedAnnotations(imgState, classes, coordFormat, withType) ==
  LET Formatted(ann) ==
        LET numericClassId == classIdToNumericIdMap(classes, ann.classId)
            points == [k \in 1..Len(pointsToExport(ann)) |->
                         formatPointForExport(pointsToExport(ann)[k], coordFormat,
                                              imgState.dimensions)]
        IN  IF withType
            THEN [classId |-> numericClassId[1], type |-> ann.type, points |-> points]
            ELSE [classId |-> numericClassId[1], points |-> points]
      out[j \in 0..Len(imgState.annotations)] ==
        IF j = 0 THEN <<>>
        ELSE IF classIdToNumericIdMap(classes, imgState.annotations[j].classId) = None
        THEN out[j - 1]
        ELSE Append(out[j - 1], Formatted(imgState.annotations[j]))
  IN  out[Len(imgState.annotations)]

generateTxtAnnotationFileContent(images, classes, coordFormat) ==
  LET out[i \in 0..Len(images)] ==
        IF i = 0 THEN <<>>
        ELSE IF images[i].dimensions = None \/ Len(images[i].annotations) = 0
        THEN out[i - 1]
        ELSE Append(out[i - 1],
                    [name |-> images[i].name,
                     width |-> images[i].dimensions.naturalWidth,
                     height |-> images[i].dimensions.naturalHeight,
                     annotations |->
                       FormattedAnnotations(images[i], classes, coordFormat, FALSE)])
  IN  [format |-> coordFormat,
       annotationClasses |->
         [index \in 1..Len(classes) |->
            [id |-> index - 1, name |-> classes[index].name]],
       images |-> out[Len(images)]]

generateJsonAnnotationFileContent(images, classes, coordFormat) ==
  LET batchData[i \in 0..Len(images)] ==
        IF i = 0 THEN <<>>
        ELSE IF images[i].dimensions = None
        THEN batchData[i - 1]
        ELSE Append(batchData[i - 1],
                    [name |-> images[i].name,
                     width |-> images[i].dimensions.naturalWidth,
                     height |-> images[i].dimensions.naturalHeight,
                     annotations |->
                       FormattedAnnotations(images[i], classes, coordFormat, TRUE)])
  IN  [format |-> coordFormat,
       annotationClasses |->
         [index \in 1..Len(classes) |->
            [id |-> index - 1, name |-> classes[index].name]],
       images |-> batchData[Len(images)]]

CoordinateExportTypes ==
  {"txt_original", "txt_normalized", "json_original", "json_normalized"}

hasAnnotationsInBatch(images) ==
  \E i \in 1..Len(images) : Len(images[i].annotations) > 0

\* handleExportCoordinates: the file handed to downloadFile, if any, and the toast.
handleExportCoordinates(images, classes, exportType) ==
  LET Advice(title) ==
        [op |-> "handleExportCoordinates", toast |-> <<title>>,
         shape |-> None, file |-> None]
      File(filename, content) ==
        [op |-> "handleExportCoordinates", toast |-> <<"Export Successful">>,
         shape |-> None,
         file |-> Some([filename |-> filename, data |-> content])]
  IN  IF Len(images) = 0 THEN Advice("No Images")
      ELSE IF ~hasAnnotationsInBatch(images) THEN Advice("No Annotations")
      ELSE IF \E i \in 1..Len(images) :
                Len(images[i].annotations) > 0 /\ images[i].dimensions = None
      THEN Advice("Missing Data")
      ELSE IF exportType = "txt_original"
      THEN File("batch_annotations_original.txt",
                generateTxtAnnotationFileContent(images, classes, "original"))
      ELSE IF exportType = "txt_normalized"
      THEN File("batch_annotations_normalized.txt",
                generateTxtAnnotationFileContent(images, classes, "normalized"))
      ELSE IF exportType = "json_original"
      THEN File("batch_annotations_original.json",
                generateJsonAnnotationFileContent(images, classes, "original"))
      ELSE IF exportType = "json_normalized"
      THEN File("batch_annotations_normalized.json",
                generateJsonAnnotationFileContent(images, classes, "normalized"))
      ELSE Advice("Error")

commonAnnotationExportDisabled(images) ==
  Len(images) = 0 \/ ~hasAnnotationsInBatch(images)

\* An item of the "Export Coordinates As..." menu.
HandleExportCoordinates(exportType) ==
  /\ PageReady
  /\ ~commonAnnotationExportDisabled(batchImages)
  /\ CommitPage(Page, handleExportCoordinates(batchImages, annotationClasses, exportType))

\* The entries prepareCoverageData pushes for one image.
ImageCoverageData(imgState, classes) ==
  LET totalImageArea ==
        imgState.dimensions.naturalWidth * imgState.dimensions.naturalHeight
      ClassItem(index) ==
        LET annotationsForClass ==
              SelectSeq(imgState.annotations,
                        LAMBDA ann : ann.classId = classes[index].id)
            totalAreaForClass == TotalArea(annotationsForClass)
            percentageCoverage ==
              RMul(RDiv(totalAreaForClass, Num(totalImageArea)), Num(100))
        IN  [imageName |-> imgState.name,
             classId |-> classes[index].id, className |-> classes[index].name,
             numericId |-> index - 1,
             annotationCount |-> Len(annotationsForClass),
             totalPixelArea |-> ToFixed(totalAreaForClass, 2),
             percentageCoverage |-> ToFixed(percentageCoverage, 2)]
  IN  IF imgState.dimensions = None THEN <<>>
      ELSE IF totalImageArea = 0 THEN <<>>
      ELSE [index \in 1..Len(classes) |-> ClassItem(index)]

\* prepareCoverageData: the dataset, or none and the toast that says why.
prepareCoverageData(images, classes) ==
  LET all[i \in 0..Len(images)] ==
        IF i = 0 THEN <<>> ELSE all[i - 1] \o ImageCoverageData(images[i], classes)
      allCoverageData == all[Len(images)]
  IN  IF Len(images) = 0 THEN [data |-> None, toast |-> <<"No Images">>]
      ELSE IF Len(classes) = 0 THEN [data |-> None, toast |-> <<"No Classes">>]
      ELSE IF \E i \in 1..Len(images) :
                \/ images[i].dimensions = None
                \/ images[i].dimensions.naturalWidth <= 0
                \/ images[i].dimensions.naturalHeight <= 0
      THEN [data |-> None, toast |-> <<"Missing Data">>]
      ELSE IF Len(allCoverageData) = 0 /\ hasAnnotationsInBatch(images)
      THEN [data |-> None, toast |-> <<"Calculation Error">>]
      ELSE IF Len(allCoverageData) = 0 /\ ~hasAnnotationsInBatch(images)
      THEN [data |-> None, toast |-> <<"No Annotations">>]
      ELSE [data |-> Some(allCoverageData), toast |-> <<>>]

\* handleExportCoverage: the file handed to downloadFile, if any, and the toast.
handleExportCoverage(images, classes, format) ==
  LET coverageData == prepareCoverageData(images, classes)
  IN  IF coverageData.data = None
      THEN [op |-> "handleExportCoverage", toast |-> coverageData.toast,
            shape |-> None, file |-> None]
      ELSE [op |-> "handleExportCoverage", toast |-> <<"Export Successful">>,
            shape |-> None,
            file |-> Some([filename |-> "batch_coverage." \o format,
                           data |-> coverageData.data[1]])]

coverageExportDisabled(images, classes) ==
  \/ Len(images) = 0
  \/ Len(classes) = 0
  \/ \E i \in 1..Len(images) : images[i].dimensions = None

\* An item of the "Export Coverage As..." menu.
HandleExportCoverage(format) ==
  /\ PageReady
  /\ ~coverageExportDisabled(batchImages, annotationClasses)
  /\ CommitPage(Page, handleExportCoverage(batchImages, annotationClasses, format))

-----------------------------------------------------------------------------
(* AnnotationCanvas: pointer handlers.  Each yields the page, the canvas   *)
(* and what was emitted: [p, c, toast, shape].                             *)

Out(p, c, toast, shape) == [p |-> p, c |-> c, toast |-> toast, shape |-> shape]

DrawingTools == {"bbox", "polygon", "freehand"}

\* Faulty variant: entering Panning discards the draft.
EnterPanning_DiscardsDraft(c, client) ==
  [c EXCEPT !.isPanning = TRUE, !.panStart = Some(client),
            !.isDrawing = FALSE, !.isDraggingAnnotation = FALSE,
            !.currentPoints = <<>>, !.startPoint = None]

\* The canvas state set by the pan branch of handleMouseDown.
EnterPanning(c, client) ==
  [c EXCEPT !.isPanning = TRUE, !.panStart = Some(client),
            !.isDrawing = FALSE, !.isDraggingAnnotation = FALSE]

handleMouseDown(p, c, button, client) ==
  IF button = 1 \/ (button = 0 /\ p.currentTool = "pan")
  THEN Out(handleSelectAnnotation(p, NoId), EnterPanning(c, client), <<>>, None)
  ELSE IF button # 0 THEN Out(p, c, <<>>, None)
  ELSE
    LET pos == getImageMousePos(c, client)
        annotations == ActiveAnnotations(p)
        k == ClickedAnnotation(annotations, pos)
    IN  IF p.currentTool = "select"
        THEN IF k # 0
             THEN Out(handleSelectAnnotation(p, annotations[k].id),
                      [c EXCEPT !.isDraggingAnnotation = TRUE,
                                !.dragStartOffset = Some(PtSub(pos, annotations[k].points[1])),
                                !.isDrawing = FALSE, !.currentPoints = <<>>,
                                !.startPoint = None],
                      <<>>, None)
             ELSE Out(handleSelectAnnotation(p, NoId),
                      [c EXCEPT !.isDraggingAnnotation = FALSE,
                                !.isDrawing = FALSE, !.currentPoints = <<>>,
                                !.startPoint = None],
                      <<>>, None)
        ELSE IF p.currentTool \in DrawingTools
        THEN Out(handleSelectAnnotation(p, NoId),
                 [c EXCEPT !.isDrawing = TRUE, !.startPoint = Some(pos),
                           !.currentPoints =
                              IF p.currentTool = "polygon"
                              THEN Append(c.currentPoints, pos) ELSE <<pos>>,
                           !.isPanning = FALSE, !.panStart = None,
                           !.isDraggingAnnotation = FALSE],
                 <<>>, None)
        ELSE Out(p, c, <<>>, None)

\* newPoints of a drag: every point moved by the same delta.
DragPoints(points, pos, dragOffset) ==
  LET newFirstPoint == PtSub(pos, dragOffset)
      delta == PtSub(newFirstPoint, points[1])
  IN  [i \in 1..Len(points) |-> PtAdd(points[i], delta)]

\* Faulty variant: the pan delta is taken in image units.
PanDelta_DividedByZoom(c, client) ==
  Pt(RDiv(RSub(client.x, c.panStart[1].x), c.zoom),
     RDiv(RSub(client.y, c.panStart[1].y), c.zoom))

\* dx, dy of a pan step: the pointer's displacement since the anchor.
PanDelta(c, client) == PtSub(client, c.panStart[1])

handleMouseMove(p, c, client) ==
  IF c.isPanning /\ c.panStart # None
  THEN Out(p,
           [c EXCEPT !.offset = PtAdd(c.offset, PanDelta(c, client)),
                     !.panStart = Some(client)],
           <<>>, None)
  ELSE
    LET pos == getImageMousePos(c, client)
        annotations == ActiveAnnotations(p)
        d == FindIndex(annotations, LAMBDA ann : ann.id = p.selectedAnnotationId)
    IN  IF c.isPanning THEN Out(p, c, <<>>, None)
        ELSE IF /\ c.isDraggingAnnotation /\ p.selectedAnnotationId # NoId
                /\ c.dragStartOffset # None /\ p.currentTool = "select"
        THEN IF d = 0 THEN Out(p, c, <<>>, None)
             ELSE Out(handleAnnotationsChange(p,
                        [annotations EXCEPT
                           ![d].points = DragPoints(annotations[d].points, pos,
                                                    c.dragStartOffset[1])]),
                      c, <<>>, None)
        ELSE IF c.isDrawing /\ c.startPoint # None /\ p.currentTool \in DrawingTools
        THEN IF p.currentTool = "bbox"
             THEN Out(p, [c EXCEPT !.currentPoints = <<c.startPoint[1], pos>>], <<>>, None)
             ELSE IF p.currentTool = "freehand"
             THEN Out(p, [c EXCEPT !.currentPoints = Append(c.currentPoints, pos)], <<>>, None)
             ELSE Out(p, c, <<>>, None)
        ELSE Out(p, c, <<>>, None)

\* Faulty variant: one extent over the threshold is enough.
BoxLargeEnough_EitherExtent(start, pos, z) ==
  \/ RLt(ANNOTATION_LINE_WIDTH, RMul(RAbs(RSub(start.x, pos.x)), z))
  \/ RLt(ANNOTATION_LINE_WIDTH, RMul(RAbs(RSub(start.y, pos.y)), z))

\* The size test of a bounding box on pointer-up, in screen pixels.
BoxLargeEnough(start, pos, z) ==
  /\ RLt(ANNOTATION_LINE_WIDTH, RMul(RAbs(RSub(start.x, pos.x)), z))
  /\ RLt(ANNOTATION_LINE_WIDTH, RMul(RAbs(RSub(start.y, pos.y)), z))

\* finalPoints of a freehand stroke on pointer-up.
FreehandFinalPoints(points, pos) == Append(points, pos)

\* The shape handleMouseUp hands to onShapeDrawn, if any.
NewShape(tool, c, pos) ==
  IF tool = "bbox"
  THEN IF BoxLargeEnough(c.startPoint[1], pos, c.zoom)
       THEN Some([type |-> "bbox", points |-> <<c.startPoint[1], pos>>])
       ELSE None
  ELSE IF tool = "freehand"
  THEN IF Len(FreehandFinalPoints(c.currentPoints, pos)) > 1
       THEN Some([type |-> "freehand",
                  points |-> FreehandFinalPoints(c.currentPoints, pos)])
       ELSE None
  ELSE None

handleMouseUp(p, c, client) ==
  IF c.isPanning
  THEN Out(p, [c EXCEPT !.isPanning = FALSE, !.panStart = None], <<>>, None)
  ELSE IF c.isDraggingAnnotation /\ p.currentTool = "select"
  THEN Out(p, [c EXCEPT !.isDraggingAnnotation = FALSE, !.dragStartOffset = None],
           <<>>, None)
  ELSE IF ~c.isDrawing \/ c.startPoint = None \/ p.currentTool \in {"select", "pan"}
  THEN Out(p, c, <<>>, None)
  ELSE
    LET pos == getImageMousePos(c, client)
        newShape == NewShape(p.currentTool, c, pos)
        small == IF newShape = None /\ p.currentTool # "polygon"
                 THEN <<"Shape Too Small">> ELSE <<>>
        p1 == IF newShape # None THEN handleShapeDrawn(p, newShape[1]) ELSE p
        refusal == IF newShape # None THEN ShapeRefusal(p) ELSE <<>>
    IN  Out(p1,
            IF p.currentTool # "polygon"
            THEN [c EXCEPT !.isDrawing = FALSE, !.startPoint = None,
                           !.currentPoints = <<>>]
            ELSE [c EXCEPT !.isDrawing = FALSE],
            small \o refusal, newShape)

\* Faulty variant: two vertices are taken for a polygon.
PolygonLargeEnough_Two(points) == Len(points) > 1

\* Faulty variant: three vertices are not yet taken for a polygon.
PolygonLargeEnough_Four(points) == Len(points) > 3

\* currentPoints.length > 2
PolygonLargeEnough(points) == Len(points) > 2

handleDoubleClick(p, c) ==
  IF p.currentTool = "polygon" /\ PolygonLargeEnough(c.currentPoints)
  THEN LET newShape == [type |-> "polygon", points |-> c.currentPoints]
       IN  Out(handleShapeDrawn(p, newShape),
               [c EXCEPT !.currentPoints = <<>>, !.isDrawing = FALSE,
                         !.startPoint = None],
               ShapeRefusal(p), Some(newShape))
  ELSE IF p.currentTool = "polygon"
  THEN Out(p, [c EXCEPT !.currentPoints = <<>>, !.isDrawing = FALSE,
                        !.startPoint = None],
           <<"Polygon Too Small">>, None)
  ELSE Out(p, c, <<>>, None)

onMouseOut(c, buttons) ==
  IF c.isPanning /\ buttons # 1
  THEN [c EXCEPT !.isPanning = FALSE, !.panStart = None]
  ELSE c

\* Faulty variant: the draft is discarded whatever the tool.
onMouseLeave_AnyTool(tool, c, buttons) ==
  LET c1 == IF c.isPanning /\ buttons # 1
            THEN [c EXCEPT !.isPanning = FALSE, !.panStart = None]
            ELSE c
  IN  IF c.isDrawing
      THEN [c1 EXCEPT !.isDrawing = FALSE, !.currentPoints = <<>>,
                      !.startPoint = None]
      ELSE c1

onMouseLeave(tool, c, buttons) ==
  LET c1 == IF c.isPanning /\ buttons # 1
            THEN [c EXCEPT !.isPanning = FALSE, !.panStart = None]
            ELSE c
  IN  IF c.isDrawing /\ tool # "polygon"
      THEN [c1 EXCEPT !.isDrawing = FALSE, !.currentPoints = <<>>,
                      !.startPoint = None]
      ELSE c1

\* Faulty variant: zooming discards the draft.
handleZoom_DiscardsDraft(c, factor, pivot) ==
  LET imagePivot == screenToImageCoords(c, pivot)
      newZoom == RMax(MIN_ZOOM, RMin(MAX_ZOOM, RMul(c.zoom, factor)))
  IN  [c EXCEPT !.zoom = newZoom,
                !.offset = Pt(RSub(pivot.x, RMul(imagePivot.x, newZoom)),
                              RSub(pivot.y, RMul(imagePivot.y, newZoom))),
                !.currentPoints = <<>>]

\* Faulty variant: the new offset is computed with the zoom before clamping.
handleZoom_OffsetBeforeClamp(c, factor, pivot) ==
  LET imagePivot == screenToImageCoords(c, pivot)
      rawZoom == RMul(c.zoom, factor)
      newZoom == RMax(MIN_ZOOM, RMin(MAX_ZOOM, rawZoom))
  IN  [c EXCEPT !.zoom = newZoom,
                !.offset = Pt(RSub(pivot.x, RMul(imagePivot.x, rawZoom)),
                              RSub(pivot.y, RMul(imagePivot.y, rawZoom)))]

handleZoom(c, factor, pivot) ==
  LET imagePivot == screenToImageCoords(c, pivot)
      newZoom == RMax(MIN_ZOOM, RMin(MAX_ZOOM, RMul(c.zoom, factor)))
  IN  [c EXCEPT !.zoom = newZoom,
                !.offset = Pt(RSub(pivot.x, RMul(imagePivot.x, newZoom)),
                              RSub(pivot.y, RMul(imagePivot.y, newZoom)))]

\* handleZoom with no centre given: the middle of the container.
DisplayCentre == Pt(Rat(DisplayWidth, 2), Rat(DisplayHeight, 2))

\* factor stands for Math.exp(-event.deltaY * ZOOM_SENSITIVITY)
handleWheel(c, factor, client) == handleZoom(c, factor, getCanvasMousePos(client))

resetView(p, c) ==
  IF ActiveImage(p) = None THEN c
  ELSE FitToView(c, ActiveImage(p)[1].dimensions)

-----------------------------------------------------------------------------
(* The canvas's events as actions.  The canvas exists while an image is    *)
(* active.  A button goes down only if it is up, and up only if it is      *)
(* down.  The browser delivers dblclick after two primary press/release    *)
(* pairs at one place with no other event between them: pointer.n counts   *)
(* them while the polygon tool is chosen (under any other tool the         *)
(* dblclick handler does nothing).                                         *)

CanvasMounted == ActiveImage(Page) # None /\ NoDialogOpen

Emitted(op, out) ==
  [op |-> op, toast |-> out.toast, shape |-> out.shape, file |-> None]

RunAfterDown(button, client) ==
  [held |-> pointer.held \cup {button},
   n |-> IF button # 0 \/ currentTool # "polygon" THEN 0
         ELSE IF pointer.n = 2 /\ pointer.at = Some(client) THEN 3
         ELSE 1,
   at |-> Some(client)]

RunAfterUp(button, client) ==
  [held |-> pointer.held \ {button},
   n |-> IF button = 0 /\ pointer.n \in {1, 3} /\ pointer.at = Some(client)
         THEN pointer.n + 1 ELSE 0,
   at |-> Some(client)]

\* Any other event of the canvas ends the run of clicks.
RunBroken(client) == [pointer EXCEPT !.n = 0, !.at = Some(client)]

\* MouseEvent.buttons for the buttons held: 1 primary, 4 middle.
ButtonsMask(held) ==
  (IF 0 \in held THEN 1 ELSE 0) + (IF 1 \in held THEN 4 ELSE 0)

HandleMouseDown(button, client) ==
  /\ CanvasMounted
  /\ button \notin pointer.held
  /\ (button = 0 /\ currentTool = "polygon") => Len(currentPoints) < MaxPoints
  /\ LET out == handleMouseDown(Page, Canvas, button, client)
     IN  Commit(out.p, out.c, RunAfterDown(button, client), budget,
                Emitted("handleMouseDown", out))

HandleMouseMove(client) ==
  /\ CanvasMounted
  /\ (isPanning \/ isDraggingAnnotation) => budget < MaxViewSteps
  /\ (isDrawing /\ currentTool = "freehand") => Len(currentPoints) < MaxPoints
  /\ LET out == handleMouseMove(Page, Canvas, client)
     IN  Commit(out.p, out.c, RunBroken(client),
                IF isPanning \/ isDraggingAnnotation THEN budget + 1 ELSE budget,
                Emitted("handleMouseMove", out))

HandleMouseUp(button, client) ==
  /\ CanvasMounted
  /\ button \in pointer.held
  /\ LET out == handleMouseUp(Page, Canvas, client)
     IN  Commit(out.p, out.c, RunAfterUp(button, client), budget,
                Emitted("handleMouseUp", out))

HandleDoubleClick(client) ==
  /\ CanvasMounted
  /\ pointer.n = 4 /\ pointer.at = Some(client)
  /\ LET out == handleDoubleClick(Page, Canvas)
     IN  Commit(out.p, out.c, RunBroken(client), budget,
                Emitted("handleDoubleClick", out))

\* The pointer leaves the canvas: mouseout, then mouseleave.  Buttons still
\* held are released outside, where the canvas hears nothing of it.
HandleMouseLeave(buttons) ==
  /\ CanvasMounted
  /\ buttons = ButtonsMask(pointer.held)
  /\ Commit(Page, onMouseLeave(currentTool, onMouseOut(Canvas, buttons), buttons),
            Released, budget, Quiet("onMouseLeave"))

HandleWheel(factor, client) ==
  /\ CanvasMounted
  /\ budget < MaxViewSteps
  /\ Commit(Page, handleWheel(Canvas, factor, client), RunBroken(client), budget + 1,
            Quiet("handleWheel"))

\* The "Zoom In" (1.2) and "Zoom Out" (0.8) buttons.
HandleZoomButton(factor) ==
  /\ CanvasMounted
  /\ pointer.held = {}
  /\ budget < MaxViewSteps
  /\ Commit(Page, handleZoom(Canvas, factor, DisplayCentre), Released, budget + 1,
            Quiet("handleZoom"))

\* The "Reset View" button.
ResetView ==
  /\ CanvasMounted
  /\ pointer.held = {}
  /\ Commit(Page, resetView(Page, Canvas), Released, budget, Quiet("resetView"))

-----------------------------------------------------------------------------
(* Inputs.                                                                 *)

ClientPt(x, y) == Pt(Num(x), Num(y))

\* Pointer positions: three corners of a triangle, and a point inside it.
CornerA == ClientPt(3, 3)

CornerB == ClientPt(11, 11)

CornerC == ClientPt(11, 3)

Inside == ClientPt(8, 6)

ImageNames == {"a.png", "wide.png"}

ClassNames == {"a", "b"}

Tools == {"select", "pan"} \cup DrawingTools

\* MouseEvent.button: primary, middle.
Buttons == {0, 1}

\* MouseEvent.buttons when the pointer leaves: none, primary, middle, both.
ButtonsHeld == {0, 1, 4, 5}

WheelFactors == {Num(2), Rat(1, 2), Num(20)}

ZoomButtonFactors == {Rat(12, 10), Rat(8, 10)}

Ids == 1..(MaxAnnotations + MaxClasses + MaxImages + 2)

-----------------------------------------------------------------------------
(* The store: images, classes and annotations.  Shapes come from the box   *)
(* tool, pressed at one corner and released at the opposite one; the view  *)
(* is left as fitted.                                                      *)


NextStore ==
  \/ HandleBatchUpload(<<"a.png", "wide.png">>)
  \/ \E id \in Ids : HandleSelectImageFromBatch(id)
  \/ \E id \in Ids : HandleRemoveImageFromBatch(id)
  \/ \E id \in Ids : HandleAssignClassToShape(id)
  \/ CancelClassAssignment
  \/ HandleDeleteSelectedAnnotation
  \/ HandleOpenEditClassDialog
  \/ \E id \in Ids : HandleChangeAnnotationClass(id)
  \/ CloseEditClassDialog
  \/ \E name \in ClassNames : HandleCreateClass(name)
  \/ \E id \in Ids : HandleDeleteClass(id)
  \/ ConfirmDeleteClass
  \/ CancelDeleteClass
  \/ \E id \in Ids : HandleOpenRenameDialog(id)
  \/ \E name \in ClassNames : HandleRenameClass(name)
  \/ CloseRenameDialog
  \/ \E tool \in {"bbox", "select"} : SetCurrentTool(tool)
  \/ HandleMouseDown(0, CornerA)
  \/ HandleMouseUp(0, CornerB)

SpecStore == Init /\ [][NextStore]_vars

-----------------------------------------------------------------------------
(* Shape capture: one image, one class, no stored annotation.  The wheel   *)
(* doubles the zoom.                                                       *)

CaptureTools == DrawingTools \cup {"select"}

PressPoints == {CornerA, CornerB}

ReleasePoints == {CornerA, CornerC, Inside}

NextCapture ==
  \/ HandleBatchUpload(<<"a.png">>)
  \/ HandleCreateClass("a")
  \/ CancelClassAssignment
  \/ \E tool \in CaptureTools : SetCurrentTool(tool)
  \/ \E client \in PressPoints : HandleMouseDown(0, client)
  \/ HandleMouseDown(1, CornerA)
  \/ \E client \in ReleasePoints : HandleMouseMove(client)
  \/ \E client \in ReleasePoints : HandleMouseUp(0, client)
  \/ HandleMouseUp(1, CornerA)
  \/ \E client \in ReleasePoints : HandleDoubleClick(client)
  \/ \E buttons \in ButtonsHeld : HandleMouseLeave(buttons)
  \/ HandleWheel(Num(2), CornerA)
  \/ ResetView

SpecCapture == Init /\ [][NextCapture]_vars

-----------------------------------------------------------------------------
(* Selecting, dragging and panning: one image, one class, boxes.           *)

SelectTools == {"bbox", "select", "pan"}

GrabPoints == {CornerA, Inside}

DropPoints == {CornerB}

NextSelect ==
  \/ HandleBatchUpload(<<"a.png">>)
  \/ HandleCreateClass("a")
  \/ \E id \in Ids : HandleAssignClassToShape(id)
  \/ CancelClassAssignment
  \/ \E tool \in SelectTools : SetCurrentTool(tool)
  \/ \E client \in GrabPoints : HandleMouseDown(0, client)
  \/ HandleMouseDown(1, CornerA)
  \/ \E client \in DropPoints : HandleMouseMove(client)
  \/ \E client \in DropPoints : HandleMouseUp(0, client)
  \/ HandleMouseUp(1, CornerA)
  \/ \E buttons \in ButtonsHeld : HandleMouseLeave(buttons)

SpecSelect == Init /\ [][NextSelect]_vars

-----------------------------------------------------------------------------
(* Shapes of every kind stored, dragged, reclassified and dropped with     *)
(* their class: one image, two classes, one press point.                   *)

NextShapes ==
  \/ HandleBatchUpload(<<"a.png">>)
  \/ HandleCreateClass("a")
  \/ \E id \in Ids : HandleAssignClassToShape(id)
  \/ CancelClassAssignment
  \/ HandleOpenEditClassDialog
  \/ \E id \in Ids : HandleChangeAnnotationClass(id)
  \/ CloseEditClassDialog
  \/ \E id \in Ids : HandleDeleteClass(id)
  \/ ConfirmDeleteClass
  \/ CancelDeleteClass
  \/ \E tool \in CaptureTools : SetCurrentTool(tool)
  \/ HandleMouseDown(0, CornerA)
  \/ HandleMouseMove(CornerB)
  \/ \E client \in {CornerA, CornerB} : HandleMouseUp(0, client)
  \/ HandleDoubleClick(CornerA)

SpecShapes == Init /\ [][NextShapes]_vars

-----------------------------------------------------------------------------
(* Panning: one image shown at half size, one class; boxes and polygons    *)
(* are drawn, boxes stored, selected and dragged, and the view is panned   *)
(* with the middle button and with the pan tool.                           *)

PanTools == {"bbox", "polygon", "pan", "select"}

NextPan ==
  \/ HandleBatchUpload(<<"wide.png">>)
  \/ HandleCreateClass("a")
  \/ \E id \in Ids : HandleAssignClassToShape(id)
  \/ CancelClassAssignment
  \/ \E tool \in PanTools : SetCurrentTool(tool)
  \/ HandleMouseDown(0, CornerA)
  \/ HandleMouseDown(1, CornerA)
  \/ HandleMouseMove(CornerC)
  \/ HandleMouseUp(0, CornerB)
  \/ HandleMouseUp(1, CornerA)
  \/ \E buttons \in ButtonsHeld : HandleMouseLeave(buttons)

SpecPan == Init /\ [][NextPan]_vars

-----------------------------------------------------------------------------
(* The view: two images, one of them far larger than the container; the    *)
(* view is zoomed by wheel and buttons, panned, refitted on image change   *)
(* and reset, while boxes are drawn, stored and dropped with their class.  *)

ViewTools == {"bbox", "pan"}

NextView ==
  \/ HandleBatchUpload(<<"a.png", "huge.png">>)
  \/ \E id \in Ids : HandleSelectImageFromBatch(id)
  \/ HandleCreateClass("a")
  \/ \E id \in Ids : HandleAssignClassToShape(id)
  \/ CancelClassAssignment
  \/ \E id \in Ids : HandleDeleteClass(id)
  \/ ConfirmDeleteClass
  \/ CancelDeleteClass
  \/ \E tool \in ViewTools : SetCurrentTool(tool)
  \/ HandleMouseDown(0, CornerA)
  \/ HandleMouseDown(1, CornerA)
  \/ HandleMouseMove(CornerC)
  \/ HandleMouseUp(0, CornerB)
  \/ HandleMouseUp(1, CornerA)
  \/ \E buttons \in ButtonsHeld : HandleMouseLeave(buttons)
  \/ \E factor \in WheelFactors : HandleWheel(factor, CornerA)
  \/ \E factor \in ZoomButtonFactors : HandleZoomButton(factor)
  \/ ResetView

SpecView == Init /\ [][NextView]_vars

-----------------------------------------------------------------------------
(* Export: the files as a function of the store.  The store is drawn from  *)
(* samples: one image, cropped or not, with up to two of the sample        *)
(* shapes, alone or followed by a second image with no annotation, whose   *)
(* dimensions are loaded or missing; two classes.                          *)

CoverageExportFormats == {"json", "txt", "csv"}

\* Two classes; their ids are no indices of the list.
ExportClasses == <<[id |-> 11, name |-> "a"], [id |-> 12, name |-> "b"]>>

\* The class list in the order of creation, and with class a moved to the end.
SampleClassLists == {ExportClasses, <<ExportClasses[2], ExportClasses[1]>>}

SquarePoints ==
  <<Pt(Num(0), Num(0)), Pt(Num(10), Num(0)), Pt(Num(10), Num(10)), Pt(Num(0), Num(10))>>

SampleShapes ==
  <<[classId |-> 11, type |-> "bbox", points |-> <<Pt(Num(2), Num(2)), Pt(Num(7), Num(9))>>],
    [classId |-> 11, type |-> "polygon", points |-> SquarePoints],
    [classId |-> 12, type |-> "freehand",
     points |-> <<Pt(Num(1), Num(1)), Pt(Num(5), Num(4))>>],
    [classId |-> 12, type |-> "polygon",
     points |-> <<Pt(Num(0), Num(0)), Pt(Num(4), Num(0)), Pt(Num(0), Num(3))>>],
    [classId |-> 12, type |-> "bbox", points |-> <<Pt(Num(7), Num(9)), Pt(Num(2), Num(2))>>],
    [classId |-> 11, type |-> "freehand",
     points |-> <<Pt(Num(1), Num(1)), Pt(Rat(11, 2), Num(1)), Pt(Num(5), Num(4))>>],
    [classId |-> 11, type |-> "polygon",
     points |-> <<Pt(Num(1), Num(1)), Pt(Num(5), Num(4))>>]>>

\* The annotation lists of the sample stores: no shape, one, or two different
\* ones in either order.
SampleAnnotations ==
  LET Ann(k, id) == [id |-> id, classId |-> SampleShapes[k].classId,
                     type |-> SampleShapes[k].type, points |-> SampleShapes[k].points]
      K == 1..Len(SampleShapes)
  IN  {<<>>} \cup {<<Ann(k, 1)>> : k \in K}
             \cup {<<Ann(k[1], 1), Ann(k[2], 2)>> : k \in {h \in K \X K : h[1] # h[2]}}

\* No crop, a crop of 10 x 5, and a crop of no width.
SampleCrops ==
  {None, Some([x |-> Num(1), y |-> Num(1), width |-> Num(10), height |-> Num(5)]),
   Some([x |-> Num(1), y |-> Num(1), width |-> Num(0), height |-> Num(5)])}

SampleBatches ==
  LET First(anns, crop) ==
        [id |-> 1, name |-> "a.png", dimensions |-> ImageDimensions("a.png"),
         annotations |-> anns, cropArea |-> crop]
      Second(dims) ==
        [id |-> 2, name |-> "wide.png", dimensions |-> dims,
         annotations |-> <<>>, cropArea |-> None]
  IN  {<<First(anns, crop)>> : anns \in SampleAnnotations, crop \in SampleCrops}
        \cup {<<First(anns, crop), Second(dims)>> :
                 anns \in SampleAnnotations, crop \in SampleCrops,
                 dims \in {ImageDimensions("wide.png"), None}}

InitExport ==
  /\ batchImages \in SampleBatches
  /\ activeImageId = 1
  /\ annotationClasses \in SampleClassLists
  /\ currentTool = PageInit.currentTool
  /\ selectedAnnotationId = PageInit.selectedAnnotationId
  /\ pendingShapeData = PageInit.pendingShapeData
  /\ isClassAssignmentDialogOpen = PageInit.isClassAssignmentDialogOpen
  /\ isEditClassDialogOpen = PageInit.isEditClassDialogOpen
  /\ isRenameClassDialogOpen = PageInit.isRenameClassDialogOpen
  /\ classToRename = PageInit.classToRename
  /\ classToDelete = PageInit.classToDelete
  /\ isDeleteConfirmOpen = PageInit.isDeleteConfirmOpen
  /\ isDrawing = CanvasInit.isDrawing
  /\ startPoint = CanvasInit.startPoint
  /\ currentPoints = CanvasInit.currentPoints
  /\ isDraggingAnnotation = CanvasInit.isDraggingAnnotation
  /\ dragStartOffset = CanvasInit.dragStartOffset
  /\ zoom = FitToView(CanvasInit, ImageDimensions("a.png")).zoom
  /\ offset = FitToView(CanvasInit, ImageDimensions("a.png")).offset
  /\ isPanning = CanvasInit.isPanning
  /\ panStart = CanvasInit.panStart
  /\ pointer = Released
  /\ budget = 0
  /\ signal = Quiet("init")
  /\ loading = <<>>

NextExport ==
  \/ \E format \in CoverageExportFormats : HandleExportData(format)
  \/ \E exportType \in CoordinateExportTypes : HandleExportCoordinates(exportType)
  \/ \E format \in CoverageExportFormats : HandleExportCoverage(format)

SpecExport == InitExport /\ [][NextExport]_vars

-----------------------------------------------------------------------------
(* Coordinates of what the canvas stores: one image shown at half size,    *)
(* lower than the container; boxes are drawn, stored, selected and         *)
(* dragged, and the normalized coordinates are exported.                   *)

CoordsTools == {"bbox", "select"}

NormalizedExportTypes == {"txt_normalized", "json_normalized"}

NextCoords ==
  \/ HandleBatchUpload(<<"wide.png">>)
  \/ HandleCreateClass("a")
  \/ \E id \in Ids : HandleAssignClassToShape(id)
  \/ CancelClassAssignment
  \/ \E tool \in CoordsTools : SetCurrentTool(tool)
  \/ \E client \in GrabPoints : HandleMouseDown(0, client)
  \/ HandleMouseMove(CornerB)
  \/ HandleMouseUp(0, CornerB)
  \/ \E exportType \in NormalizedExportTypes : HandleExportCoordinates(exportType)

SpecCoords == Init /\ [][NextCoords]_vars

-----------------------------------------------------------------------------
(* Keys: one image, one class; boxes are drawn, stored, selected and       *)
(* dragged, the class dialog of the selection is opened and closed, and    *)
(* keys go down with the focus in and out of text-editing controls.        *)

KeyNames == {"Delete", "Backspace", "Enter"}

TargetTags == TextEditingTags \cup {"BODY", "BUTTON"}

NextKeys ==
  \/ HandleBatchUpload(<<"a.png">>)
  \/ HandleCreateClass("a")
  \/ \E id \in Ids : HandleAssignClassToShape(id)
  \/ CancelClassAssignment
  \/ \E tool \in CoordsTools : SetCurrentTool(tool)
  \/ \E client \in GrabPoints : HandleMouseDown(0, client)
  \/ HandleMouseMove(CornerB)
  \/ HandleMouseUp(0, CornerB)
  \/ HandleOpenEditClassDialog
  \/ CloseEditClassDialog
  \/ \E key \in KeyNames, tagName \in TargetTags : HandleKeyDown(key, tagName)

SpecKeys == Init /\ [][NextKeys]_vars

-----------------------------------------------------------------------------
(* Class names: classes are created, renamed and deleted under names that  *)
(* differ in case only, and under names that differ otherwise.             *)

TypedNames == {"a", "A", "b", "B"}

NextClasses ==
  \/ \E name \in TypedNames : HandleCreateClass(name)
  \/ \E id \in Ids : HandleDeleteClass(id)
  \/ ConfirmDeleteClass
  \/ CancelDeleteClass
  \/ \E id \in Ids : HandleOpenRenameDialog(id)
  \/ \E name \in TypedNames : HandleRenameClass(name)
  \/ CloseRenameDialog

SpecClasses == Init /\ [][NextClasses]_vars

-----------------------------------------------------------------------------
(* Cropping: one image; crop values, whole and fractional, inside and     *)
(* outside the image, are applied to it and reset.                         *)

TypedOrigins == {Num(-1), Num(0), Rat(1, 2)}

TypedExtents == {Rat(2, 5), Num(10), Rat(37, 2), Num(20)}

NextCrop ==
  \/ HandleBatchUpload(<<"a.png">>)
  \/ \E x, y \in TypedOrigins, width, height \in TypedExtents :
       HandleApply(x, y, width, height)
  \/ HandleReset

SpecCrop == Init /\ [][NextCrop]_vars

-----------------------------------------------------------------------------
(* Picking: one image at its fitted view with one or two stored shapes,    *)
(* given by the pointer positions they were drawn through; the select tool *)
(* is pressed on, beside and between their points.                         *)

FittedView == FitToView(CanvasInit, ImageDimensions("a.png"))

ImagePt(client) == getImageMousePos(FittedView, client)

\* On the line from CornerA to CornerB.
Midway == ClientPt(7, 7)

\* Left of that line, inside the square it spans.
Beside == ClientPt(6, 8)

\* Outside the square.
Beyond == ClientPt(13, 13)

CornerD == ClientPt(3, 11)

HitPoints == {CornerA, CornerB, CornerC, Inside, Midway, Beside, Beyond}

\* A stroke of two points and one of three, a triangle, and three boxes
\* over one square, each from another pair of corners.
HitShapes ==
  <<[type |-> "freehand", points |-> <<ImagePt(CornerA), ImagePt(CornerB)>>],
    [type |-> "freehand",
     points |-> <<ImagePt(CornerA), ImagePt(CornerC), ImagePt(CornerB)>>],
    [type |-> "polygon",
     points |-> <<ImagePt(CornerA), ImagePt(CornerC), ImagePt(CornerB)>>],
    [type |-> "bbox", points |-> <<ImagePt(CornerA), ImagePt(CornerB)>>],
    [type |-> "bbox", points |-> <<ImagePt(CornerB), ImagePt(CornerA)>>],
    [type |-> "bbox", points |-> <<ImagePt(CornerC), ImagePt(CornerD)>>]>>

HitAnnotations ==
  LET Ann(k, id) == [id |-> id, classId |-> ExportClasses[1].id,
                     type |-> HitShapes[k].type, points |-> HitShapes[k].points]
      K == 1..Len(HitShapes)
  IN  {<<Ann(k, 1)>> : k \in K}
        \cup {<<Ann(k[1], 1), Ann(k[2], 2)>> : k \in {h \in K \X K : h[1] # h[2]}}

InitHit ==
  /\ batchImages \in
       {<<[id |-> 1, name |-> "a.png", dimensions |-> ImageDimensions("a.png"),
           annotations |-> anns, cropArea |-> None]>> : anns \in HitAnnotations}
  /\ activeImageId = 1
  /\ annotationClasses = ExportClasses
  /\ currentTool = "select"
  /\ selectedAnnotationId = PageInit.selectedAnnotationId
  /\ pendingShapeData = PageInit.pendingShapeData
  /\ isClassAssignmentDialogOpen = PageInit.isClassAssignmentDialogOpen
  /\ isEditClassDialogOpen = PageInit.isEditClassDialogOpen
  /\ isRenameClassDialogOpen = PageInit.isRenameClassDialogOpen
  /\ classToRename = PageInit.classToRename
  /\ classToDelete = PageInit.classToDelete
  /\ isDeleteConfirmOpen = PageInit.isDeleteConfirmOpen
  /\ isDrawing = CanvasInit.isDrawing
  /\ startPoint = CanvasInit.startPoint
  /\ currentPoints = CanvasInit.currentPoints
  /\ isDraggingAnnotation = CanvasInit.isDraggingAnnotation
  /\ dragStartOffset = CanvasInit.dragStartOffset
  /\ zoom = FittedView.zoom
  /\ offset = FittedView.offset
  /\ isPanning = CanvasInit.isPanning
  /\ panStart = CanvasInit.panStart
  /\ pointer = Released
  /\ budget = 0
  /\ signal = Quiet("init")
  /\ loading = <<>>

NextHit ==
  \/ \E client \in HitPoints : HandleMouseDown(0, client)
  \/ \E client \in HitPoints : HandleMouseUp(0, client)

SpecHit == InitHit /\ [][NextHit]_vars

-----------------------------------------------------------------------------
(* Dragging: two images, the active one with two stored shapes of two      *)
(* classes, the other with one; the select tool presses on and beside the  *)
(* shapes, the pointer moves, leaves the canvas and is released, and the   *)
(* middle button pans.                                                     *)

\* Of the shapes of picking: the stroke of three points, the triangle and
\* the first box.
DragShapes == {2, 3, 4}

DragAnnotations ==
  LET Ann(k, id, classId) == [id |-> id, classId |-> classId,
                              type |-> HitShapes[k].type, points |-> HitShapes[k].points]
      K == DragShapes
  IN  {<<Ann(k[1], 1, ExportClasses[1].id), Ann(k[2], 2, ExportClasses[2].id)>> :
         k \in {h \in K \X K : h[1] # h[2]}}

OtherImage ==
  [id |-> 2, name |-> "wide.png", dimensions |-> ImageDimensions("wide.png"),
   annotations |-> <<[id |-> 3, classId |-> ExportClasses[1].id, type |-> "bbox",
                      points |-> <<ImagePt(CornerA), ImagePt(CornerB)>>]>>,
   cropArea |-> None]

InitDrag ==
  /\ batchImages \in
       {<<[id |-> 1, name |-> "a.png", dimensions |-> ImageDimensions("a.png"),
           annotations |-> anns, cropArea |-> None], OtherImage>> :
          anns \in DragAnnotations}
  /\ activeImageId = 1
  /\ annotationClasses = ExportClasses
  /\ currentTool = "select"
  /\ selectedAnnotationId = PageInit.selectedAnnotationId
  /\ pendingShapeData = PageInit.pendingShapeData
  /\ isClassAssignmentDialogOpen = PageInit.isClassAssignmentDialogOpen
  /\ isEditClassDialogOpen = PageInit.isEditClassDialogOpen
  /\ isRenameClassDialogOpen = PageInit.isRenameClassDialogOpen
  /\ classToRename = PageInit.classToRename
  /\ classToDelete = PageInit.classToDelete
  /\ isDeleteConfirmOpen = PageInit.isDeleteConfirmOpen
  /\ isDrawing = CanvasInit.isDrawing
  /\ startPoint = CanvasInit.startPoint
  /\ currentPoints = CanvasInit.currentPoints
  /\ isDraggingAnnotation = CanvasInit.isDraggingAnnotation
  /\ dragStartOffset = CanvasInit.dragStartOffset
  /\ zoom = FittedView.zoom
  /\ offset = FittedView.offset
  /\ isPanning = CanvasInit.isPanning
  /\ panStart = CanvasInit.panStart
  /\ pointer = Released
  /\ budget = 0
  /\ signal = Quiet("init")
  /\ loading = <<>>

DragButtons == {0, 1}

DragMasks == {0, 1, 4, 5}

NextDrag ==
  \/ \E button \in DragButtons, client \in GrabPoints : HandleMouseDown(button, client)
  \/ \E client \in DropPoints \cup {Beyond} : HandleMouseMove(client)
  \/ \E button \in DragButtons : HandleMouseUp(button, CornerB)
  \/ \E buttons \in DragMasks : HandleMouseLeave(buttons)

SpecDrag == InitDrag /\ [][NextDrag]_vars

-----------------------------------------------------------------------------
(* Editing the selection: the stores of dragging; an annotation is picked  *)
(* with the select tool, deleted with the toolbar or a key, or given       *)
(* another class in the dialog, in either image.                           *)

NextEdit ==
  \/ \E id \in Ids : HandleSelectImageFromBatch(id)
  \/ SetCurrentTool("select")
  \/ \E client \in GrabPoints \cup {CornerD} : HandleMouseDown(0, client)
  \/ HandleMouseUp(0, CornerB)
  \/ HandleDeleteSelectedAnnotation
  \/ HandleOpenEditClassDialog
  \/ \E k \in 1..Len(ExportClasses) : HandleChangeAnnotationClass(ExportClasses[k].id)
  \/ CloseEditClassDialog
  \/ \E tagName \in {"BODY", "INPUT"} : HandleKeyDown("Delete", tagName)

SpecEdit == InitDrag /\ [][NextEdit]_vars

-----------------------------------------------------------------------------
(* Switching: two images of different fitted views and one class; polygon  *)
(* vertices are clicked and closed with a double click, and the other      *)
(* image is made the active one between the clicks.                        *)

SwitchTools == {"polygon", "bbox"}

NextSwitch ==
  \/ HandleBatchUpload(<<"a.png", "wide.png">>)
  \/ HandleCreateClass("a")
  \/ \E id \in Ids : HandleSelectImageFromBatch(id)
  \/ \E tool \in SwitchTools : SetCurrentTool(tool)
  \/ \E client \in PressPoints : HandleMouseDown(0, client)
  \/ \E client \in PressPoints : HandleMouseUp(0, client)
  \/ \E client \in PressPoints : HandleDoubleClick(client)
  \/ CancelClassAssignment

SpecSwitch == Init /\ [][NextSwitch]_vars

-----------------------------------------------------------------------------
(* Coverage of what is drawn: one image, one class; boxes are drawn from   *)
(* the corners of the canvas and inside the image, stored, selected and    *)
(* dragged, and the coverage is exported.                                  *)

\* The first and the last pixel of the canvas, in the margin around the image.
CanvasFirst == ClientPt(RectLeft, RectTop)

CanvasLast == ClientPt(RectLeft + DisplayWidth, RectTop + DisplayHeight)

NextCover ==
  \/ HandleBatchUpload(<<"a.png">>)
  \/ HandleCreateClass("a")
  \/ \E id \in Ids : HandleAssignClassToShape(id)
  \/ \E tool \in CoordsTools : SetCurrentTool(tool)
  \/ \E client \in {CanvasFirst, CornerA} : HandleMouseDown(0, client)
  \/ HandleMouseMove(CornerB)
  \/ \E client \in {CanvasLast, CornerB} : HandleMouseUp(0, client)
  \/ HandleExportData("json")

SpecCover == Init /\ [][NextCover]_vars

-----------------------------------------------------------------------------
(* The selection: the stores of dragging; an annotation is picked, and     *)
(* then it or its class is deleted, the image is switched or removed, a    *)
(* pan is started with the middle button or a drawing with another tool.   *)

SelectionTools == {"select", "bbox"}

NextSelection ==
  \/ \E id \in Ids : HandleSelectImageFromBatch(id)
  \/ \E id \in Ids : HandleRemoveImageFromBatch(id)
  \/ \E tool \in SelectionTools : SetCurrentTool(tool)
  \/ \E button \in DragButtons : HandleMouseDown(button, CornerD)
  \/ \E button \in DragButtons : HandleMouseUp(button, CornerB)
  \/ HandleDeleteSelectedAnnotation
  \/ \E k \in 1..Len(ExportClasses) : HandleDeleteClass(ExportClasses[k].id)
  \/ ConfirmDeleteClass
  \/ CancelDeleteClass

SpecSelection == InitDrag /\ [][NextSelection]_vars

-----------------------------------------------------------------------------
(* Uploads: files are chosen while the images of an earlier choice are     *)
(* still being read, and images are selected and removed meanwhile.        *)

ChosenFiles == {<<"a.png">>, <<"wide.png">>, <<"a.png", "wide.png">>}

NextUpload ==
  \/ \E names \in ChosenFiles : HandleFileChange(names)
  \/ \E k \in 1..MaxLoading : ImagesLoaded(k)
  \/ \E id \in Ids : HandleSelectImageFromBatch(id)
  \/ \E id \in Ids : HandleRemoveImageFromBatch(id)

SpecUpload == Init /\ [][NextUpload]_vars

-----------------------------------------------------------------------------
(* Properties of the store.                                                *)

\* The annotations in the state, each named by its image and its own id.
StoredAt(images) ==
  UNION {{<<images[i].id, images[i].annotations[j].id>> :
            j \in 1..Len(images[i].annotations)} : i \in 1..Len(images)}

\* C1: confirming the deletion of class C removes C from the class list and,
\* from every image of the batch, exactly the annotations whose classId is
\* C; every other class and every other annotation keeps its fields and its
\* place among the ones that stay.
C1_ClassDeleteFrame ==
  [][(signal'.op = "confirmDeleteClass" /\ classToDelete # None) =>
       LET gone == classToDelete[1].id
           Kept(anns) == {j \in 1..Len(anns) : anns[j].classId # gone}
           KeptClasses == {k \in 1..Len(annotationClasses) :
                             annotationClasses[k].id # gone}
       IN  /\ Len(annotationClasses') = Cardinality(KeptClasses)
           /\ \A k \in KeptClasses :
                annotationClasses'[Cardinality({h \in KeptClasses : h <= k})]
                  = annotationClasses[k]
           /\ Len(batchImages') = Len(batchImages)
           /\ \A i \in 1..Len(batchImages) :
                LET before == batchImages[i].annotations
                    after == batchImages'[i].annotations
                IN  /\ batchImages'[i].id = batchImages[i].id
                    /\ batchImages'[i].name = batchImages[i].name
                    /\ Len(after) = Cardinality(Kept(before))
                    /\ \A j \in Kept(before) :
                         after[Cardinality({h \in Kept(before) : h <= j})] = before[j]
    ]_vars

\* A class was deleted, and a class and an annotation are still there.
C1_Witness ==
  /\ signal.op = "confirmDeleteClass"
  /\ signal.toast = <<"Class Deleted">>
  /\ Len(annotationClasses) = 1
  /\ TotalAnnotations(Page) = 1

\* C2: in every state every annotation of every image has the id of a class
\* of the class list as its classId.
C2_ClassIdLive ==
  \A i \in 1..Len(batchImages) :
    \A j \in 1..Len(batchImages[i].annotations) :
      \E k \in 1..Len(annotationClasses) :
        annotationClasses[k].id = batchImages[i].annotations[j].classId

\* Two annotations of two classes in two images, one just reclassified.
C2_Witness ==
  /\ signal.op = "handleChangeAnnotationClass"
  /\ Len(batchImages) = 2
  /\ Len(batchImages[1].annotations) = 1
  /\ Len(batchImages[2].annotations) = 1
  /\ batchImages[1].annotations[1].classId # batchImages[2].annotations[1].classId

\* C10: an annotation enters an image only when a class is assigned to the
\* pending shape, which it then consumes; the pending shape comes only from
\* a shape proposed while a class exists; a shape proposed while no class
\* exists leaves nothing pending and stores nothing; cancelling the class
\* assignment clears the pending shape and stores nothing.
C10_AppendOnlyFromProposal ==
  [][/\ StoredAt(batchImages') \ StoredAt(batchImages) # {} =>
          /\ signal'.op = "handleAssignClassToShape"
          /\ pendingShapeData # None
          /\ pendingShapeData' = None
          /\ Cardinality(StoredAt(batchImages') \ StoredAt(batchImages)) = 1
          /\ \E i \in 1..Len(batchImages') :
               LET after == batchImages'[i].annotations
               IN  /\ batchImages'[i].id = activeImageId
                   /\ Len(after) = Len(batchImages[i].annotations) + 1
                   /\ after[Len(after)].type = pendingShapeData[1].type
                   /\ after[Len(after)].points = pendingShapeData[1].points
     /\ (pendingShapeData' # None /\ pendingShapeData' # pendingShapeData) =>
          /\ signal'.shape = pendingShapeData'
          /\ Len(annotationClasses) > 0
     /\ (signal'.shape # None /\ Len(annotationClasses) = 0) =>
          /\ pendingShapeData' = None
          /\ batchImages' = batchImages
     /\ signal'.op = "cancelClassAssignment" =>
          /\ pendingShapeData' = None
          /\ batchImages' = batchImages
    ]_vars

\* A class was assigned to a pending shape and the annotation is stored.
C10_Witness ==
  /\ signal.op = "handleAssignClassToShape"
  /\ signal.toast = <<"Annotation Added">>
  /\ pendingShapeData = None
  /\ Len(ActiveAnnotations(Page)) >= 1

-----------------------------------------------------------------------------
(* Properties of the canvas.                                               *)

Idle == ~isDrawing /\ ~isDraggingAnnotation /\ ~isPanning

\* The step is a press, or a release, of the primary button on the canvas.
PrimaryDown == signal'.op = "handleMouseDown" /\ 0 \in pointer'.held \ pointer.held

PrimaryUp == signal'.op = "handleMouseUp" /\ 0 \in pointer.held \ pointer'.held

\* The pointer position of the step's event, in image coordinates.
EventPos == getImageMousePos(Canvas, pointer'.at[1])

\* C3: in every state at most one of the modes Drawing, Dragging and Panning
\* is active.
C3_ModesExclusive ==
  /\ ~(isDrawing /\ isDraggingAnnotation)
  /\ ~(isDrawing /\ isPanning)
  /\ ~(isDraggingAnnotation /\ isPanning)

\* C4: in every state a stored bbox annotation has exactly 2 points, a
\* stored polygon at least 3 and a stored freehand stroke at least 2.
C4_ShapeInvariant ==
  \A i \in 1..Len(batchImages) :
    \A j \in 1..Len(batchImages[i].annotations) :
      LET ann == batchImages[i].annotations[j]
      IN  /\ ann.type \in {"bbox", "polygon", "freehand"}
          /\ ann.type = "bbox" => Len(ann.points) = 2
          /\ ann.type = "polygon" => Len(ann.points) >= 3
          /\ ann.type = "freehand" => Len(ann.points) >= 2

\* A polygon and another shape are stored and one of them has just been
\* dragged.
C4_Witness ==
  /\ signal.op = "handleMouseMove"
  /\ isDraggingAnnotation
  /\ budget > 0
  /\ Len(ActiveAnnotations(Page)) = 2
  /\ \E j \in 1..2 : ActiveAnnotations(Page)[j].type = "polygon"
  /\ \E j \in 1..2 : ActiveAnnotations(Page)[j].type # "polygon"

\* C5: with the box tool, a pointer-up that ends a draft proposes the box
\* from the anchor to the release position if both its extents in screen
\* pixels exceed the threshold, and only then; a draft that is not proposed
\* leaves nothing pending and stores nothing; either way the draft is
\* emptied and no mode is left active.
C5_BoxProposal ==
  [][(PrimaryUp /\ currentTool = "bbox") =>
       LET width == RMul(RAbs(RSub(startPoint[1].x, EventPos.x)), zoom)
           height == RMul(RAbs(RSub(startPoint[1].y, EventPos.y)), zoom)
           large == RLt(ANNOTATION_LINE_WIDTH, width) /\ RLt(ANNOTATION_LINE_WIDTH, height)
       IN  /\ signal'.shape # None => isDrawing /\ startPoint # None
           /\ (isDrawing /\ startPoint # None) =>
                /\ large =>
                     signal'.shape =
                       Some([type |-> "bbox", points |-> <<startPoint[1], EventPos>>])
                /\ ~large =>
                     /\ signal'.shape = None
                     /\ pendingShapeData' = None
                     /\ batchImages' = batchImages
                /\ currentPoints' = <<>>
                /\ startPoint' = None
                /\ Idle'
    ]_vars

\* A box was proposed while the zoom was 2.
C5_Witness ==
  /\ signal.op = "handleMouseUp"
  /\ signal.shape # None
  /\ signal.shape[1].type = "bbox"
  /\ zoom = Num(2)
  /\ pendingShapeData = signal.shape

\* C6: with the polygon tool, a double click proposes the polygon of the
\* committed vertices when there are more than 2 of them; with 2 or fewer it
\* proposes nothing and stores nothing; either way the draft is emptied and
\* no mode is left active.
C6_PolygonDoubleClick ==
  [][(signal'.op = "handleDoubleClick" /\ currentTool = "polygon") =>
       /\ Len(currentPoints) > 2 =>
            signal'.shape = Some([type |-> "polygon", points |-> currentPoints])
       /\ Len(currentPoints) <= 2 =>
            /\ signal'.shape = None
            /\ pendingShapeData' = pendingShapeData
            /\ batchImages' = batchImages
       /\ currentPoints' = <<>>
       /\ Idle'
    ]_vars

\* A polygon of three vertices was proposed by a double click.
C6_Witness ==
  /\ signal.op = "handleDoubleClick"
  /\ signal.shape # None
  /\ Len(signal.shape[1].points) = 3
  /\ pendingShapeData = signal.shape
  /\ currentPoints = <<>>

\* C7: with the freehand tool, pointer-down starts the draft with its
\* position, every pointer-move while drawing appends its position, and
\* pointer-up proposes a stroke if and only if the draft has more than one
\* point, with exactly the points of the draft.
C7_FreehandDraft ==
  [][/\ (PrimaryDown /\ currentTool = "freehand") => currentPoints' = <<EventPos>>
     /\ (signal'.op = "handleMouseMove" /\ currentTool = "freehand" /\ isDrawing) =>
          currentPoints' = Append(currentPoints, EventPos)
     /\ (PrimaryUp /\ currentTool = "freehand" /\ isDrawing) =>
          /\ signal'.shape # None <=> Len(currentPoints) > 1
          /\ signal'.shape # None =>
               signal'.shape = Some([type |-> "freehand", points |-> currentPoints])
    ]_vars

\* C8: with the select tool, a primary pointer-down selects the annotation
\* of the highest index among those that contain the pointer position and
\* starts dragging it; when none contains it, the selection is emptied and
\* no drag starts.
C8_SelectTopmost ==
  [][(PrimaryDown /\ currentTool = "select") =>
       LET anns == ActiveAnnotations(Page)
           hits == {i \in 1..Len(anns) : isPointInsideAnnotationPath(EventPos, anns[i])}
       IN  /\ hits # {} =>
                /\ \E i \in hits :
                     /\ \A j \in hits : j <= i
                     /\ selectedAnnotationId' = anns[i].id
                /\ isDraggingAnnotation'
           /\ hits = {} =>
                /\ selectedAnnotationId' = NoId
                /\ ~isDraggingAnnotation'
    ]_vars

\* Two annotations contain the pointer and the later one is selected and
\* being dragged.
C8_Witness ==
  /\ signal.op = "handleMouseDown"
  /\ currentTool = "select"
  /\ isDraggingAnnotation
  /\ Len(ActiveAnnotations(Page)) = 2
  /\ pointer.at # None
  /\ \A j \in 1..2 :
       isPointInsideAnnotationPath(getImageMousePos(Canvas, pointer.at[1]),
                                   ActiveAnnotations(Page)[j])
  /\ selectedAnnotationId = ActiveAnnotations(Page)[2].id

\* A pointer-move while an annotation of the active image is selected and
\* being dragged with the select tool.
DragMove ==
  /\ signal'.op = "handleMouseMove"
  /\ isDraggingAnnotation
  /\ currentTool = "select"
  /\ dragStartOffset # None
  /\ \E j \in 1..Len(ActiveAnnotations(Page)) :
       ActiveAnnotations(Page)[j].id = selectedAnnotationId

\* The selected annotation is translated: its first point is at the pointer
\* position minus the grab offset, the differences between its points and
\* its area are as before.
Translated ==
  LET anns == ActiveAnnotations(Page)
      d == CHOOSE j \in 1..Len(anns) : anns[j].id = selectedAnnotationId
      before == anns[d]
      after == ActiveAnnotations(Page)'[d]
  IN  /\ Len(after.points) = Len(before.points)
      /\ after.points[1] = PtSub(EventPos, dragStartOffset[1])
      /\ \A i \in 1..Len(before.points) :
           PtSub(after.points[i], after.points[1])
             = PtSub(before.points[i], before.points[1])
      /\ calculateSingleAnnotationArea(after) = calculateSingleAnnotationArea(before)

\* C9: while dragging, a pointer-move puts the selected annotation's first
\* point at the pointer position minus the grab offset, keeps every
\* difference between its points, and so keeps its area.
C9_DragTranslates == [][DragMove => Translated]_vars

\* The same holds of every drag that is not at once a pan.
DragTranslatesUnlessPanning == [][(DragMove /\ ~isPanning) => Translated]_vars

\* The step is a pointer-down that enters Panning: the middle button, or the
\* primary button with the pan tool.
PanEntry ==
  /\ signal'.op = "handleMouseDown"
  /\ \/ 1 \in pointer'.held \ pointer.held
     \/ 0 \in pointer'.held \ pointer.held /\ currentTool = "pan"

\* The step is an event of the canvas heard while Panning.
PanEvent ==
  /\ isPanning
  /\ signal'.op \in {"handleMouseMove", "handleMouseUp", "onMouseLeave"}

\* C11: a pointer-down that enters Panning leaves the committed vertices of
\* a polygon draft as they are, and so does every move, release and leave
\* while Panning and every change of tool; the next pointer-down with the
\* polygon tool appends its position to them.
C11_PanKeepsPolygon ==
  [][/\ (PanEntry \/ PanEvent \/ signal'.op = "setCurrentTool") =>
          currentPoints' = currentPoints
     /\ PanEntry => isPanning'
     /\ (PrimaryDown /\ currentTool = "polygon") =>
          currentPoints' = Append(currentPoints, EventPos)
    ]_vars

\* A polygon draft of one vertex went through a pan, and
\* the polygon tool has added a second vertex to it.
C11_Witness ==
  /\ signal.op = "handleMouseDown"
  /\ currentTool = "polygon"
  /\ Len(currentPoints) = 2
  /\ budget > 0
  /\ currentPoints[1] # currentPoints[2]

\* C12: a pointer-down with the select tool, on an annotation or beside
\* every annotation, and the pointer-up that follows, leave the committed
\* vertices of a polygon draft as they are.
C12_SelectKeepsPolygon ==
  [][((PrimaryDown \/ PrimaryUp) /\ currentTool = "select") =>
       currentPoints' = currentPoints
    ]_vars

\* C13: when the pointer leaves the canvas while Drawing, with the box or
\* the freehand tool the draft is emptied, no shape is proposed, nothing is
\* stored or left pending and no mode stays active; with the polygon tool
\* the committed vertices are as before.
C13_LeaveWhileDrawing ==
  [][(signal'.op = "onMouseLeave" /\ isDrawing) =>
       /\ currentTool \in {"bbox", "freehand"} =>
            /\ currentPoints' = <<>>
            /\ startPoint' = None
            /\ signal'.shape = None
            /\ pendingShapeData' = pendingShapeData
            /\ batchImages' = batchImages
            /\ Idle'
       /\ currentTool = "polygon" => currentPoints' = currentPoints
    ]_vars

\* The pointer left during a press of the polygon tool and the two committed
\* vertices are still the draft.
C13_Witness ==
  /\ signal.op = "onMouseLeave"
  /\ currentTool = "polygon"
  /\ isDrawing
  /\ Len(currentPoints) = 2

\* C14: while Panning, a pointer-move adds the pointer position minus the
\* anchor to the offset, as it is and not divided by the zoom, and makes the
\* pointer position the anchor; the zoom, the draft, the modes, the
\* selection, every annotation and the rest of the page are as before.
C14_PanMove ==
  [][(signal'.op = "handleMouseMove" /\ isPanning) =>
       /\ offset' = PtAdd(offset, PtSub(pointer'.at[1], panStart[1]))
       /\ panStart' = pointer'.at
       /\ UNCHANGED <<pageVars, isDrawing, startPoint, currentPoints,
                      isDraggingAnnotation, dragStartOffset, zoom, isPanning>>
    ]_vars

\* The view, at zoom 1/2, was panned by a pointer-move made while an
\* annotation was selected and held for a drag.
C14_Witness ==
  /\ signal.op = "handleMouseMove"
  /\ isPanning
  /\ isDraggingAnnotation
  /\ selectedAnnotationId # NoId
  /\ zoom = Rat(1, 2)
  /\ panStart = Some(CornerC)
  /\ budget = 1

\* The step zooms (wheel or button), resets the view, refits it to another
\* image, or is part of a pan: its pointer-down, a move or the release.
ViewStep ==
  \/ signal'.op \in {"handleWheel", "handleZoom", "resetView",
                     "handleSelectImageFromBatch"}
  \/ PanEntry
  \/ isPanning /\ signal'.op \in {"handleMouseMove", "handleMouseUp"}

C16_ZoomInRange == RLe(MIN_ZOOM, zoom) /\ RLe(zoom, MAX_ZOOM)

\* The same holds of the zoom set by every wheel and zoom-button step.
ZoomStepInRange ==
  [][signal'.op \in {"handleWheel", "handleZoom"} =>
       RLe(MIN_ZOOM, zoom') /\ RLe(zoom', MAX_ZOOM)]_vars

\* The pivot of the step's zoom, in canvas pixels: the pointer for the
\* wheel, the middle of the container for the buttons.
ZoomPivot ==
  IF signal'.op = "handleWheel" THEN getCanvasMousePos(pointer'.at[1])
  ELSE DisplayCentre

\* C17: a zoom step keeps the image point under the pivot where it is on
\* screen: the image point found under the pivot before the step is drawn
\* at the pivot after it, also when the zoom was clamped.
C17_PivotStationary ==
  [][signal'.op \in {"handleWheel", "handleZoom"} =>
       imageToScreenCoords(Canvas', screenToImageCoords(Canvas, ZoomPivot)) = ZoomPivot
    ]_vars

\* The wheel asked for a zoom of 20 and the zoom was clamped to MAX_ZOOM.
C17_Witness ==
  /\ signal.op = "handleWheel"
  /\ zoom = MAX_ZOOM
  /\ offset # Pt(Num(0), Num(0))

\* Points to convert: the origin, whole and fractional coordinates, inside
\* and outside the container and the image.
SamplePoints ==
  {Pt(Num(0), Num(0)), Pt(Num(2), Num(10)), Pt(Rat(7, 2), Num(-3)),
   Pt(Num(400), Rat(1, 3))}

\* C18: in every state of the view, converting a screen point to image
\* coordinates and back gives the point, and converting an image point to
\* screen coordinates and back gives the point.
C18_RoundTrip ==
  \A q \in SamplePoints :
    /\ imageToScreenCoords(Canvas, screenToImageCoords(Canvas, q)) = q
    /\ screenToImageCoords(Canvas, imageToScreenCoords(Canvas, q)) = q

\* A view that is neither at zoom 1 nor at the origin: fitted to the large
\* image and then panned.
C18_Witness ==
  /\ signal.op = "handleMouseMove"
  /\ isPanning
  /\ zoom = Rat(19, 400)
  /\ offset # Pt(Num(0), Num(0))
  /\ offset.x # offset.y

-----------------------------------------------------------------------------
(* Properties of the coverage dataset.                                     *)

\* The sum over i, with wraparound, of x_i * y_(i+1) - x_(i+1) * y_i.
RECURSIVE ShoelaceSum(_, _)
ShoelaceSum(points, i) ==
  IF i = 0 THEN Num(0)
  ELSE LET k == (i % Len(points)) + 1
       IN  RAdd(ShoelaceSum(points, i - 1),
                RSub(RMul(points[i].x, points[k].y), RMul(points[k].x, points[i].y)))

\* The area the claim gives for an annotation.
AreaByRule(ann) ==
  IF ann.type = "bbox" /\ Len(ann.points) = 2
  THEN RMul(RSub(RMax(ann.points[1].x, ann.points[2].x),
                 RMin(ann.points[1].x, ann.points[2].x)),
            RSub(RMax(ann.points[1].y, ann.points[2].y),
                 RMin(ann.points[1].y, ann.points[2].y)))
  ELSE IF ann.type \in {"polygon", "freehand"} /\ Len(ann.points) >= 3
  THEN RMul(Rat(1, 2), RAbs(ShoelaceSum(ann.points, Len(ann.points))))
  ELSE Num(0)

\* C19: the area of every annotation is the product of the extents of its
\* two corners for a box, the Shoelace value for a polygon or freehand
\* stroke of at least 3 points and 0 otherwise; the square of side 10 has
\* area 100 and the box from (2,2) to (7,9) area 35.
C19_Area ==
  /\ \A i \in 1..Len(batchImages) :
       \A j \in 1..Len(batchImages[i].annotations) :
         calculateSingleAnnotationArea(batchImages[i].annotations[j])
           = AreaByRule(batchImages[i].annotations[j])
  /\ calculateSingleAnnotationArea([type |-> "polygon", points |-> SquarePoints])
       = Num(100)
  /\ calculateSingleAnnotationArea(
       [type |-> "bbox", points |-> <<Pt(Num(2), Num(2)), Pt(Num(7), Num(9))>>])
       = Num(35)

\* The store holds an open freehand stroke of three points and a polygon of
\* two points, both of class a, and the export has reported their areas:
\* 27/4 for the stroke and 0 for the polygon.
C19_Witness ==
  /\ signal.op = "handleExportData"
  /\ signal.file # None
  /\ Len(batchImages[1].annotations) = 2
  /\ batchImages[1].annotations[1].type = "freehand"
  /\ Len(batchImages[1].annotations[1].points) = 3
  /\ batchImages[1].annotations[2].type = "polygon"
  /\ Len(batchImages[1].annotations[2].points) = 2
  /\ signal.file[1].data[1].totalPixelArea = Rat(27, 4)

\* The crop rectangle's area if the image is cropped, else its natural area.
EffectiveArea(img) ==
  IF img.cropArea # None
  THEN RMul(img.cropArea[1].width, img.cropArea[1].height)
  ELSE Num(img.dimensions.naturalWidth * img.dimensions.naturalHeight)

\* The positions, in an image's annotation list, of the annotations of a class.
OfClass(img, classId) ==
  {j \in 1..Len(img.annotations) : img.annotations[j].classId = classId}

\* The sum of the areas of an image's annotations of a class.
RECURSIVE ClassAreaUpTo(_, _, _)
ClassAreaUpTo(img, classId, j) ==
  IF j = 0 THEN Num(0)
  ELSE IF j \in OfClass(img, classId)
  THEN RAdd(ClassAreaUpTo(img, classId, j - 1), AreaByRule(img.annotations[j]))
  ELSE ClassAreaUpTo(img, classId, j - 1)

ClassArea(img, classId) == ClassAreaUpTo(img, classId, Len(img.annotations))

PercentCoverage(img, classId) ==
  RDiv(RMul(Num(100), ClassArea(img, classId)), EffectiveArea(img))

\* The entries of the exported dataset for an image and a class.
Reported(img, classId) ==
  {item \in Range(signal.file[1].data) :
     item.imageName = img.name /\ item.classId = classId}

\* `shown` is `exact` rounded to two decimals.
RoundedTo2(shown, exact) ==
  /\ 100 % shown[2] = 0
  /\ RLe(RAbs(RSub(shown, exact)), Rat(1, 200))

Exported == signal.op = "handleExportData" /\ signal.file # None

-----------------------------------------------------------------------------
(* Properties of the exports.                                              *)

ExportOps == {"handleExportData", "handleExportCoordinates", "handleExportCoverage"}

\* An export has just been requested.
Requested == signal.op \in ExportOps

\* The request ended with an advisory toast and no file.
Advised ==
  /\ signal.file = None
  /\ signal.toast # <<>>
  /\ signal.toast # <<"Export Successful">>

LacksDimensions(img) == img.dimensions = None /\ img.cropArea = None

\* C21: an export or coverage request made when some image lacks
\* dimensions, or an image's effective area is not positive, or the class
\* list is empty, or there are no annotations, ends with an advisory toast
\* and no file.
C21_ShortCircuit ==
  (/\ Requested
   /\ \/ \E i \in 1..Len(batchImages) : LacksDimensions(batchImages[i])
      \/ \E i \in 1..Len(batchImages) :
           /\ ~LacksDimensions(batchImages[i])
           /\ RLe(EffectiveArea(batchImages[i]), Num(0))
      \/ Len(annotationClasses) = 0
      \/ ~hasAnnotationsInBatch(batchImages))
  => Advised

\* The parts of C21 that hold: a coordinate request with an annotated image
\* that lacks dimensions, and a coverage request with any image that lacks
\* them or with no image of positive effective area, end with an advisory
\* toast and no file.
ShortCircuitAsCoded ==
  /\ (/\ signal.op = "handleExportCoordinates"
      /\ \E i \in 1..Len(batchImages) :
           /\ LacksDimensions(batchImages[i])
           /\ Len(batchImages[i].annotations) > 0) => Advised
  /\ (/\ signal.op \in {"handleExportData", "handleExportCoverage"}
      /\ \E i \in 1..Len(batchImages) : LacksDimensions(batchImages[i])) => Advised
  /\ (/\ signal.op = "handleExportData"
      /\ \A i \in 1..Len(batchImages) :
           RLe(EffectiveArea(batchImages[i]), Num(0))) => Advised

\* A coordinate file has just been written.
CoordinatesExported == signal.op = "handleExportCoordinates" /\ signal.file # None

\* The image of the batch that an entry of a file is about.
StoredImage(name) == CHOOSE img \in Range(batchImages) : img.name = name

\* The least and the greatest corner of a box; the points of any other shape.
Corners(ann) ==
  IF ann.type = "bbox" /\ Len(ann.points) = 2
  THEN LET xs == {ann.points[1].x, ann.points[2].x}
           ys == {ann.points[1].y, ann.points[2].y}
           Least(S) == CHOOSE v \in S : \A w \in S : RLe(v, w)
           Greatest(S) == CHOOSE v \in S : \A w \in S : RLe(w, v)
       IN  <<[x |-> Least(xs), y |-> Least(ys)], [x |-> Greatest(xs), y |-> Greatest(ys)]>>
  ELSE ann.points

\* `shown` is `exact` rounded to `digits` decimals.
\* With shown = n / 10^digits and exact = a / b: 2 * |n * b - a * 10^digits| <= b.
RoundedTo(shown, exact, digits) ==
  LET n == shown[1] * (Pow10(digits) \div shown[2])
  IN  /\ Pow10(digits) % shown[2] = 0
      /\ 2 * Abs(n * exact[2] - exact[1] * Pow10(digits)) <= exact[2]

EffectiveWidth(img) ==
  IF img.cropArea # None THEN img.cropArea[1].width
  ELSE Num(img.dimensions.naturalWidth)

EffectiveHeight(img) ==
  IF img.cropArea # None THEN img.cropArea[1].height
  ELSE Num(img.dimensions.naturalHeight)

\* Every point of a coordinate file is the stored point divided by (w, h) of
\* its image in normalized mode, to 6 decimals, and the stored point itself
\* in original mode, to 2 decimals.
PointsScaledBy(w(_), h(_)) ==
  \A e \in Range(signal.file[1].data.images) :
    LET img == StoredImage(e.name)
    IN  /\ Len(e.annotations) = Len(img.annotations)
        /\ \A j \in 1..Len(e.annotations) :
             LET stored == Corners(img.annotations[j])
                 written == e.annotations[j].points
             IN  /\ Len(written) = Len(stored)
                 /\ \A k \in 1..Len(written) :
                      IF signal.file[1].data.format = "normalized"
                      THEN (RLt(Num(0), w(img)) /\ RLt(Num(0), h(img))) =>
                             /\ RoundedTo(written[k].x, RDiv(stored[k].x, w(img)), 6)
                             /\ RoundedTo(written[k].y, RDiv(stored[k].y, h(img)), 6)
                      ELSE /\ RoundedTo(written[k].x, stored[k].x, 2)
                           /\ RoundedTo(written[k].y, stored[k].y, 2)

\* C22: in normalized mode every exported point is (x / effectiveWidth,
\* y / effectiveHeight), the effective size being that of the crop rectangle
\* if the image is cropped and the natural size otherwise; in original mode
\* it is the stored point.  Both are read at the export's rounding precision
\* (6 and 2 decimals).
C22_NormalizedByEffectiveSize ==
  CoordinatesExported => PointsScaledBy(EffectiveWidth, EffectiveHeight)

NaturalWidth(img) == Num(img.dimensions.naturalWidth)

NaturalHeight(img) == Num(img.dimensions.naturalHeight)

\* What holds instead: the divisor is the natural size, cropped or not; and
\* (50, 50) on an image of 100 x 200 is written as (0.5, 0.25).
NormalizedByNaturalSize ==
  /\ CoordinatesExported => PointsScaledBy(NaturalWidth, NaturalHeight)
  /\ formatPointForExport(Pt(Num(50), Num(50)), "normalized",
                          [naturalWidth |-> 100, naturalHeight |-> 200])
       = [x |-> Rat(1, 2), y |-> Rat(1, 4)]

\* The points of a coordinate file.
WrittenPoints ==
  UNION {UNION {Range(e.annotations[j].points) : j \in 1..Len(e.annotations)} :
           e \in Range(signal.file[1].data.images)}

\* C23: every coordinate written by a normalized export lies between 0 and
\* 1, whatever was drawn and dragged on the canvas.
C23_NormalizedInUnit ==
  (CoordinatesExported /\ signal.file[1].data.format = "normalized") =>
    \A p \in WrittenPoints :
      /\ RLe(Num(0), p.x) /\ RLe(p.x, Num(1))
      /\ RLe(Num(0), p.y) /\ RLe(p.y, Num(1))

\* In the file just written every box is its least corner followed by its
\* greatest corner: as they are in original mode (the sample coordinates
\* have at most two decimals), over the natural size in normalized mode.
BoxesByCorners ==
  \A e \in Range(signal.file[1].data.images) :
    LET img == StoredImage(e.name)
    IN  \A j \in 1..Len(img.annotations) :
          img.annotations[j].type = "bbox" =>
            LET least == Corners(img.annotations[j])[1]
                greatest == Corners(img.annotations[j])[2]
                written == e.annotations[j].points
            IN  /\ Len(written) = 2
                /\ RLe(least.x, greatest.x) /\ RLe(least.y, greatest.y)
                /\ {least.x, greatest.x}
                     = {img.annotations[j].points[1].x, img.annotations[j].points[2].x}
                /\ {least.y, greatest.y}
                     = {img.annotations[j].points[1].y, img.annotations[j].points[2].y}
                /\ IF signal.file[1].data.format = "original"
                   THEN written = <<least, greatest>>
                   ELSE /\ RoundedTo(written[1].x, RDiv(least.x, NaturalWidth(img)), 6)
                        /\ RoundedTo(written[1].y, RDiv(least.y, NaturalHeight(img)), 6)
                        /\ RoundedTo(written[2].x, RDiv(greatest.x, NaturalWidth(img)), 6)
                        /\ RoundedTo(written[2].y, RDiv(greatest.y, NaturalHeight(img)), 6)

\* C24: every box is exported as (minCorner, maxCorner) = ((min x, min y),
\* (max x, max y)) of its two stored points, whichever corner was drawn
\* first, and the export leaves the stored annotations as they are.
C24_BoxCanonical ==
  /\ [](CoordinatesExported => BoxesByCorners)
  /\ [][signal'.op = "handleExportCoordinates" => batchImages' = batchImages]_vars

\* A box stored from its greatest corner (7,9) to its least (2,2) has been
\* exported as (2,2), (7,9) and is stored as before.
C24_Witness ==
  /\ CoordinatesExported
  /\ signal.file[1].data.format = "original"
  /\ batchImages[1].annotations # <<>>
  /\ batchImages[1].annotations[1].type = "bbox"
  /\ batchImages[1].annotations[1].points = <<Pt(Num(7), Num(9)), Pt(Num(2), Num(2))>>
  /\ signal.file[1].data.images[1].annotations[1].points
       = <<Pt(Num(2), Num(2)), Pt(Num(7), Num(9))>>

\* The place of a class in the class list, counted from 0.
IndexOfClass(classId) ==
  (CHOOSE k \in 1..Len(annotationClasses) : annotationClasses[k].id = classId) - 1

\* C25: in a coordinate file the identifier written for an annotation is the
\* index of its class in the class list, for every annotation of every
\* image; the legend of the file shows that index with the name of that
\* class; the identifier is not the class's own id.
C25_ClassIndex ==
  CoordinatesExported =>
    LET legend == signal.file[1].data.annotationClasses
    IN  /\ Len(legend) = Len(annotationClasses)
        /\ \A k \in 1..Len(legend) :
             legend[k] = [id |-> k - 1, name |-> annotationClasses[k].name]
        /\ \A e \in Range(signal.file[1].data.images) :
             LET img == StoredImage(e.name)
             IN  /\ Len(e.annotations) = Len(img.annotations)
                 /\ \A j \in 1..Len(e.annotations) :
                      /\ e.annotations[j].classId = IndexOfClass(img.annotations[j].classId)
                      /\ e.annotations[j].classId # img.annotations[j].classId
                      /\ legend[e.annotations[j].classId + 1].name
                           = annotationClasses[IndexOfClass(img.annotations[j].classId) + 1].name

\* A file has been written in which class a, the second of the list, has
\* the identifier 1 and class b the identifier 0, for one annotation each.
C25_Witness ==
  /\ CoordinatesExported
  /\ annotationClasses[1].name = "b"
  /\ Len(signal.file[1].data.images[1].annotations) = 2
  /\ signal.file[1].data.images[1].annotations[1].classId = 1
  /\ signal.file[1].data.images[1].annotations[2].classId = 0
  /\ batchImages[1].annotations[1].classId = ExportClasses[1].id
  /\ batchImages[1].annotations[2].classId = ExportClasses[2].id

\* The dataset file of the format, written from the dataset of the last
\* export: the file just written, or what one of the other two menu items
\* writes from the same store.
DatasetFile(format) ==
  IF signal.file[1].filename = "fieldquad_batch_data." \o format
  THEN signal.file[1].content
  ELSE generateExportFileContent(signal.file[1].data, annotationClasses, format)

Triple(stats) ==
  <<stats.annotationCount, stats.totalPixelArea, stats.percentageCoverage>>

\* What a file says about an image and a class: the (count, area,
\* percentage) it holds for them.  Structured and text files are read by
\* image block and class name, the tabular file by row and column header.
ReadStats(format, imageName, className) ==
  LET file == DatasetFile(format)
  IN  IF format = "csv"
      THEN {Triple(file.rows[n].coverageStats[k]) :
              n \in {n \in 1..Len(file.rows) : file.rows[n].imageInfo.name = imageName},
              k \in {k \in 1..Len(file.classHeaders) : file.classHeaders[k] = className}}
      ELSE UNION {{Triple(file.images[n].coverageStats[h]) :
                     h \in {h \in 1..Len(file.images[n].coverageStats) :
                              file.images[n].coverageStats[h].className = className}} :
                  n \in {n \in 1..Len(file.images) :
                           file.images[n].imageInfo.name = imageName}}

\* The three formats say the same about every image and class.
FormatsAgree ==
  \A i \in 1..Len(batchImages) : \A k \in 1..Len(annotationClasses) :
    LET Read(format) ==
          ReadStats(format, batchImages[i].name, annotationClasses[k].name)
    IN  Read("json") = Read("txt") /\ Read("txt") = Read("csv")

\* The tabular file has one row for the image, with 0, 0.00, 0.00 for every
\* class without an annotation in it.
RowOf(img) ==
  LET rows == DatasetFile("csv").rows
  IN  /\ Cardinality({n \in 1..Len(rows) : rows[n].imageInfo.name = img.name}) = 1
      /\ \A k \in 1..Len(annotationClasses) :
           LET said == ReadStats("csv", img.name, annotationClasses[k].name)
           IN  /\ Cardinality(said) = 1
               /\ OfClass(img, annotationClasses[k].id) = {} =>
                    said = {<<0, Num(0), Num(0)>>}
               /\ \A t \in said : t[1] = Cardinality(OfClass(img, annotationClasses[k].id))

\* C26: for one store the text, structured and tabular exports report the
\* same count, area and percentage, at two decimals, for every image and
\* class; the tabular export has one row per image, with 0, 0.00, 0.00 for a
\* class without annotations in that image.
C26_FormatsAgree ==
  Exported =>
    /\ FormatsAgree
    /\ \A i \in 1..Len(batchImages) : RowOf(batchImages[i])

\* What holds: the formats agree, and the tabular export has such a row for
\* every image of positive effective area.
FormatsAgreeOnPositiveAreas ==
  Exported =>
    /\ FormatsAgree
    /\ \A i \in 1..Len(batchImages) :
         RLt(Num(0), EffectiveArea(batchImages[i])) => RowOf(batchImages[i])

-----------------------------------------------------------------------------
(* Properties of the keyboard.                                             *)

KeyDeleted ==
  /\ signal.op = "handleKeyDown"
  /\ signal.event = [key |-> "Delete", tagName |-> "BODY"]
  /\ signal.toast = <<"Annotation Deleted">>
  /\ TotalAnnotations(Page) = 1

-----------------------------------------------------------------------------
(* Properties of the class list.                                           *)

\* Two names are equal ignoring case.
SameIgnoringCase(n, m) ==
  n = m \/ \E letter \in {{"a", "A"}, {"b", "B"}} : n \in letter /\ m \in letter

\* C28: no two classes of the class list have names that are equal ignoring
\* case, and a create or rename that changes the class list gives it a name
\* that no other class of the list had, ignoring case: one that collides
\* leaves the list unchanged.
C28_NamesUnique ==
  /\ [](\A i, j \in 1..Len(annotationClasses) :
          i # j => ~SameIgnoringCase(annotationClasses[i].name,
                                     annotationClasses[j].name))
  /\ [][(/\ signal'.op \in {"handleCreateClass", "handleRenameClass"}
         /\ annotationClasses' # annotationClasses) =>
          \E k \in 1..Len(annotationClasses') :
            /\ \A h \in 1..Len(annotationClasses) :
                 annotationClasses[h].id # annotationClasses'[k].id =>
                   /\ ~SameIgnoringCase(annotationClasses[h].name,
                                        annotationClasses'[k].name)
                   /\ annotationClasses[h] \in Range(annotationClasses')
            /\ \A h \in 1..Len(annotationClasses') :
                 h # k => annotationClasses'[h] \in Range(annotationClasses)
      ]_vars

\* A create under a name that an existing class has in the other case was
\* turned down, with two classes in the list, one of them renamed before.
C28_Witness ==
  /\ signal = Told("handleCreateClass", <<"Class Exists">>)
  /\ Len(annotationClasses) = 2
  /\ annotationClasses[1].name = "A"
  /\ annotationClasses[2].name = "b"

-----------------------------------------------------------------------------
(* Properties of the crop.                                                 *)

Applied == signal.op = "handleApply"

\* The rectangle has positive sides and lies in the natural image, up to
\* `slack` pixels over each far edge.
InsideImage(c, dims, slack) ==
  /\ RLe(Num(0), c.x) /\ RLe(Num(0), c.y)
  /\ RLe(RAdd(c.x, c.width), Num(dims.naturalWidth + slack))
  /\ RLe(RAdd(c.y, c.height), Num(dims.naturalHeight + slack))

PositiveSides(c) == RLt(Num(0), c.width) /\ RLt(Num(0), c.height)

\* C29: every crop area that Apply Crop hands to the store has a positive
\* width and height and lies inside the natural image of the active image,
\* whatever was typed, and values that are turned down leave the stored
\* crop as it was.
C29_CropInside ==
  /\ []((Applied /\ signal.crop # None) =>
          /\ PositiveSides(signal.crop[1])
          /\ InsideImage(signal.crop[1], ActiveImage(Page)[1].dimensions, 0)
          /\ ActiveImage(Page)[1].cropArea = signal.crop)
  /\ [][(signal'.op = "handleApply" /\ signal'.crop = None) =>
          batchImages' = batchImages]_vars

\* What the dialog does keep: the values it accepts are inside the image
\* with positive sides before rounding, the crop area handed on has whole
\* values, no negative side and at most one pixel over a far edge, and the
\* values it turns down leave the batch as it was.
CropAsCoded ==
  /\ []((Applied /\ signal.crop # None) =>
          /\ PositiveSides(signal.typed[1])
          /\ InsideImage(signal.typed[1], ActiveImage(Page)[1].dimensions, 0)
          /\ \A side \in {"x", "y", "width", "height"} :
               /\ signal.crop[1][side][2] = 1
               /\ RLe(Num(0), signal.crop[1][side])
          /\ InsideImage(signal.crop[1], ActiveImage(Page)[1].dimensions, 1)
          /\ ActiveImage(Page)[1].cropArea = signal.crop)
  /\ []((Applied /\ signal.crop = None) =>
          ~(/\ PositiveSides(signal.typed[1])
            /\ InsideImage(signal.typed[1], ActiveImage(Page)[1].dimensions, 0)))
  /\ [][(signal'.op = "handleApply" /\ signal'.crop = None) =>
          batchImages' = batchImages]_vars

\* A crop of no width was handed on.
CropWithoutWidth ==
  Applied /\ signal.crop # None /\ signal.crop[1].width = Num(0)

\* A crop that ends past the right edge of the image was handed on.
CropPastEdge ==
  /\ Applied /\ signal.crop # None
  /\ RLt(Num(ActiveImage(Page)[1].dimensions.naturalWidth),
         RAdd(signal.crop[1].x, signal.crop[1].width))

\* Values were turned down over a stored crop.
CropTurnedDown ==
  /\ Applied /\ signal.crop = None
  /\ ActiveImage(Page)[1].cropArea # None

-----------------------------------------------------------------------------
(* Properties of picking.                                                  *)

\* The select tool was pressed, and the button is still down.
Pressed == signal.op = "handleMouseDown" /\ pointer.held = {0} /\ currentTool = "select"

\* Where it was pressed, in image coordinates.
PressedAt == getImageMousePos(Canvas, pointer.at[1])

\* q lies on the segment from a to b: on the line through them, not before a
\* and not after b.
Between(a, b, q) ==
  /\ RMul(RSub(b.x, a.x), RSub(q.y, a.y)) = RMul(RSub(b.y, a.y), RSub(q.x, a.x))
  /\ RLe(Num(0), RAdd(RMul(RSub(q.x, a.x), RSub(b.x, a.x)),
                      RMul(RSub(q.y, a.y), RSub(b.y, a.y))))
  /\ RLe(Num(0), RAdd(RMul(RSub(q.x, b.x), RSub(a.x, b.x)),
                      RMul(RSub(q.y, b.y), RSub(a.y, b.y))))

\* The side of the line a -> b on which q lies: 1, -1, or 0 on the line.
Side(a, b, q) ==
  LET lhs == RMul(RSub(b.x, a.x), RSub(q.y, a.y))
      rhs == RMul(RSub(b.y, a.y), RSub(q.x, a.x))
  IN  IF RLt(rhs, lhs) THEN 1 ELSE IF RLt(lhs, rhs) THEN -1 ELSE 0

\* The closed region bounded by the cycle of the vertices of a convex
\* outline: q is not on both sides of its edges.
InClosedRegion(points, q) ==
  LET n == Len(points)
      sides == {Side(points[i], points[IF i = n THEN 1 ELSE i + 1], q) : i \in 1..n}
  IN  ~({1, -1} \subseteq sides)

\* The rectangle between the least and the greatest coordinates of two corners.
InMinMaxRectangle(p1, p2, q) ==
  /\ RLe(RMin(p1.x, p2.x), q.x) /\ RLe(q.x, RMax(p1.x, p2.x))
  /\ RLe(RMin(p1.y, p2.y), q.y) /\ RLe(q.y, RMax(p1.y, p2.y))

TwoPointStroke(ann) == ann.type = "freehand" /\ Len(ann.points) = 2

\* The region of an annotation other than a stroke of two points.
InRegion(ann, q) ==
  IF ann.type = "bbox" THEN InMinMaxRectangle(ann.points[1], ann.points[2], q)
  ELSE InClosedRegion(ann.points, q)

\* The id of the last annotation of the list among those at `hits`.
TopId(annotations, hits) ==
  IF hits = {} THEN NoId
  ELSE annotations[CHOOSE i \in hits : \A j \in hits : j <= i].id

StrokeSelected ==
  /\ Pressed
  /\ Len(ActiveAnnotations(Page)) = 2
  /\ ActiveAnnotations(Page)[1].type = "bbox"
  /\ TwoPointStroke(ActiveAnnotations(Page)[2])
  /\ pointer.at = Some(Midway)
  /\ selectedAnnotationId = ActiveAnnotations(Page)[2].id

\* A stroke of three points was pressed inside the triangle it outlines, and
\* is selected.
StrokeRegionSelected ==
  /\ Pressed
  /\ Len(ActiveAnnotations(Page)) = 1
  /\ ActiveAnnotations(Page)[1].type = "freehand"
  /\ Len(ActiveAnnotations(Page)[1].points) = 3
  /\ pointer.at = Some(Inside)
  /\ selectedAnnotationId = ActiveAnnotations(Page)[1].id

-----------------------------------------------------------------------------
(* Properties of a drag's frame.                                           *)

\* A pointer-up heard while an annotation is being dragged.
DragEnd ==
  /\ signal'.op = "handleMouseUp"
  /\ isDraggingAnnotation
  /\ currentTool = "select"

\* Of annotation j of the active image nothing but the points differs.
SameButPoints(before, after) ==
  /\ after.id = before.id
  /\ after.classId = before.classId
  /\ after.type = before.type

\* Nothing of the store differs but the points of the selected annotation
\* of the active image.
OnlySelectedPointsDiffer ==
  LET anns == ActiveAnnotations(Page)
      after == ActiveAnnotations(Page)'
  IN  /\ activeImageId' = activeImageId
      /\ annotationClasses' = annotationClasses
      /\ Len(batchImages') = Len(batchImages)
      /\ \A i \in 1..Len(batchImages) :
           IF batchImages[i].id = activeImageId
           THEN [batchImages'[i] EXCEPT !.annotations = batchImages[i].annotations]
                  = batchImages[i]
           ELSE batchImages'[i] = batchImages[i]
      /\ Len(after) = Len(anns)
      /\ \A j \in 1..Len(anns) :
           /\ SameButPoints(anns[j], after[j])
           /\ anns[j].id # selectedAnnotationId => after[j] = anns[j]

\* C31: every pointer-move of a drag and the pointer-up that ends it change
\* at most the points of the selected annotation of the active image: its
\* id, classId and type, the number and order of the annotations, every
\* other annotation of that image, every other image and the class list are
\* as before; the pointer-up changes no annotation at all.
C31_DragFrame ==
  [][/\ (DragMove \/ DragEnd) => OnlySelectedPointsDiffer
     /\ DragEnd => batchImages' = batchImages
    ]_vars

\* The points a stored annotation of the drag samples starts with.
StartingPoints == {HitShapes[k].points : k \in 1..Len(HitShapes)}

\* A drag has ended that moved the selected annotation away from where it
\* started, next to a second annotation and a second image that did not
\* move.
C31_Witness ==
  /\ signal.op = "handleMouseUp"
  /\ ~isDraggingAnnotation
  /\ Len(batchImages) = 2
  /\ batchImages[2] = OtherImage
  /\ Len(ActiveAnnotations(Page)) = 2
  /\ \E j \in 1..2 :
       /\ ActiveAnnotations(Page)[j].id = selectedAnnotationId
       /\ ActiveAnnotations(Page)[j].points \notin StartingPoints
       /\ ActiveAnnotations(Page)[3 - j].points \in StartingPoints

-----------------------------------------------------------------------------
(* Properties of editing the selection.                                    *)

\* The step runs handleDeleteSelectedAnnotation: the toolbar's button, or
\* the Delete or Backspace key outside a text-editing control.
DeleteStep ==
  \/ signal'.op = "handleDeleteSelectedAnnotation"
  \/ /\ signal'.op = "handleKeyDown"
     /\ signal'.event.key \in {"Delete", "Backspace"}
     /\ signal'.event.tagName \notin TextEditingTags

\* The step runs handleChangeAnnotationClass.
ReassignStep == signal'.op = "handleChangeAnnotationClass"

\* Every image but the active one is as before, the active one is as before
\* but for its annotations, and no image is added or removed.
OnlyActiveAnnotationsDiffer ==
  /\ activeImageId' = activeImageId
  /\ Len(batchImages') = Len(batchImages)
  /\ \A i \in 1..Len(batchImages) :
       IF batchImages[i].id = activeImageId
       THEN [batchImages'[i] EXCEPT !.annotations = batchImages[i].annotations]
              = batchImages[i]
       ELSE batchImages'[i] = batchImages[i]

\* C32: deleting the selected annotation removes that annotation and no
\* other from the active image and empties the selection; reassigning its
\* class changes its classId and nothing else of it; either way the other
\* annotations of the active image, in their order, and every other image
\* are as before; with no selection neither operation changes the store or
\* the selection.
C32_EditSelection ==
  [][LET anns == ActiveAnnotations(Page)
         after == ActiveAnnotations(Page)'
         Kept(ann) == ann.id # selectedAnnotationId
     IN  /\ (DeleteStep /\ selectedAnnotationId # NoId) =>
              /\ OnlyActiveAnnotationsDiffer
              /\ after = SelectSeq(anns, Kept)
              /\ Len(after) = Len(anns) - 1
              /\ selectedAnnotationId' = NoId
         /\ (ReassignStep /\ selectedAnnotationId # NoId) =>
              /\ OnlyActiveAnnotationsDiffer
              /\ Len(after) = Len(anns)
              /\ \E classId \in ClassIds(Page) :
                   \A j \in 1..Len(anns) :
                     after[j] = IF Kept(anns[j]) THEN anns[j]
                                ELSE [anns[j] EXCEPT !.classId = classId]
              /\ \E j \in 1..Len(anns) : ~Kept(anns[j])
              /\ selectedAnnotationId' = selectedAnnotationId
         /\ ((DeleteStep \/ ReassignStep) /\ selectedAnnotationId = NoId) =>
              /\ batchImages' = batchImages
              /\ activeImageId' = activeImageId
              /\ annotationClasses' = annotationClasses
              /\ selectedAnnotationId' = NoId
    ]_vars

\* The second annotation of the first image was deleted, the first one was
\* given the other class afterwards, and the second image has its
\* annotation.
C32_Witness ==
  /\ signal.op = "handleChangeAnnotationClass"
  /\ selectedAnnotationId = 1
  /\ activeImageId = 1
  /\ Len(ActiveAnnotations(Page)) = 1
  /\ ActiveAnnotations(Page)[1].id = 1
  /\ ActiveAnnotations(Page)[1].classId = ExportClasses[2].id
  /\ batchImages[2] = OtherImage

\* The class dialog is open with nothing selected: a key deleted the
\* selection under it.
C32_NothingSelected ==
  /\ isEditClassDialogOpen
  /\ selectedAnnotationId = NoId
  /\ signal.op = "handleChangeAnnotationClass"

-----------------------------------------------------------------------------
(* Properties of the end of a drag and of a pan.                           *)

\* A pointer-move over the canvas while no button is down.
FreeMove == signal'.op = "handleMouseMove" /\ pointer.held = {}

\* C33: once the buttons are released, on the canvas or outside it, a
\* pointer-move over the canvas changes no annotation and not the offset.
C33_ReleaseEnds == [][FreeMove => (batchImages' = batchImages /\ offset' = offset)]_vars

\* The same of the offset only.
FreeMoveKeepsOffset == [][FreeMove => offset' = offset]_vars

\* What holds: a pointer-move changes annotations only while
\* isDraggingAnnotation is true and the offset only while isPanning is true,
\* and a pointer-up heard by the canvas ends one of the two: the pan if
\* there is one, else the drag.
MovesWhileModeOnly ==
  [][/\ (signal'.op = "handleMouseMove" /\ ~isDraggingAnnotation) =>
          batchImages' = batchImages
     /\ (signal'.op = "handleMouseMove" /\ ~isPanning) => offset' = offset
     /\ signal'.op = "handleMouseUp" =>
          /\ ~isPanning'
          /\ ~isPanning => ~isDraggingAnnotation'
    ]_vars

\* The pointer left the canvas with the primary button down on an
\* annotation, and the drag is still on with no button down.
DragOutlivesRelease ==
  /\ isDraggingAnnotation
  /\ pointer.held = {}
  /\ signal.op = "onMouseLeave"

-----------------------------------------------------------------------------
(* Properties of switching the image.                                      *)

\* The image positions the pointer can be pressed or released at while the
\* image now active is shown.
PositionsOfActiveImage == {getImageMousePos(Canvas, client) : client \in PressPoints}

\* Every image is shown at its fitted view.
ShownFitted ==
  ActiveImage(Page) # None => Canvas = FitToView(Canvas, ActiveImage(Page)[1].dimensions)

\* C34: a shape proposed while an image is active has only points that were
\* captured on that image: no vertex of a polygon draft started on the
\* image active before is among them.
C34_PointsOfActiveImage ==
  /\ ShownFitted
  /\ signal.shape # None =>
       \A i \in 1..Len(signal.shape[1].points) :
         signal.shape[1].points[i] \in PositionsOfActiveImage

\* A polygon is proposed on the second image whose first vertex is a
\* position clicked on the first image.
DraftCrossesImages ==
  /\ signal.op = "handleDoubleClick"
  /\ signal.shape # None
  /\ activeImageId = batchImages[2].id
  /\ signal.shape[1].points[1]
       \in {getImageMousePos(FittedView, client) : client \in PressPoints}

\* What holds: making another image the active one leaves the draft of the
\* canvas as it is, and a polygon that is proposed has the vertices of the
\* draft.
SwitchKeepsDraft ==
  [][/\ signal'.op = "handleSelectImageFromBatch" =>
          /\ currentPoints' = currentPoints
          /\ isDrawing' = isDrawing
          /\ startPoint' = startPoint
     /\ (signal'.op = "handleDoubleClick" /\ signal'.shape # None) =>
          signal'.shape[1] = [type |-> "polygon", points |-> currentPoints]
    ]_vars

-----------------------------------------------------------------------------
(* Properties of the vertices of a polygon.                                *)

\* The step proposes a polygon.
PolygonProposed == signal.shape # None /\ signal.shape[1].type = "polygon"

\* The positions among the vertices of the shape.
Positions(shape) == {shape.points[i] : i \in 1..Len(shape.points)}

\* C35: a polygon that is proposed has vertices at 3 different positions or
\* more, the double click being heard as two press/release pairs at one
\* position and then the dblclick event.
C35_DistinctVertices ==
  PolygonProposed => Cardinality(Positions(signal.shape[1])) >= 3

\* What holds: a polygon that is proposed has 3 vertices or more, and its
\* last two are both the position of the double click.
PolygonEndsDoubled ==
  PolygonProposed =>
    LET points == signal.shape[1].points
    IN  /\ Len(points) >= 3
        /\ points[Len(points)] = points[Len(points) - 1]
        /\ pointer.at # None
        /\ points[Len(points)] = getImageMousePos(Canvas, pointer.at[1])

\* A polygon is proposed that has vertices at two positions only.
PolygonOfTwoPositions ==
  /\ PolygonProposed
  /\ Cardinality(Positions(signal.shape[1])) = 2

-----------------------------------------------------------------------------
(* Properties of the range of the coverage.                                *)

\* C36: every percentage of the exported dataset lies between 0 and 100,
\* whatever was drawn, dragged and assigned: annotations of one class that
\* overlap and annotations that reach beyond the image included.
C36_CoverageInRange ==
  Exported =>
    \A item \in Range(signal.file[1].data) :
      /\ RLe(Num(0), item.percentageCoverage)
      /\ RLe(item.percentageCoverage, Num(100))

\* What holds: no percentage is below 0, and each is the sum of the areas of
\* the annotations of the class over the effective area, at two decimals.
CoverageIsSumOfAreas ==
  Exported =>
    \A item \in Range(signal.file[1].data) :
      LET img == StoredImage(item.imageName)
      IN  /\ RLe(Num(0), item.percentageCoverage)
          /\ RoundedTo2(item.percentageCoverage, PercentCoverage(img, item.classId))

\* One box, drawn from corner to corner of the canvas, is reported to cover
\* more than the image.
OneBoxOverHundred ==
  /\ Exported
  /\ Len(batchImages[1].annotations) = 1
  /\ \E item \in Range(signal.file[1].data) : RLt(Num(100), item.percentageCoverage)

\* Two boxes inside the image, one on top of the other, are reported with
\* the sum of their areas.
OverlapCountedTwice ==
  /\ Exported
  /\ Len(batchImages[1].annotations) = 2
  /\ batchImages[1].annotations[1].points = batchImages[1].annotations[2].points
  /\ \E item \in Range(signal.file[1].data) :
       item.totalPixelArea = RMul(Num(2), AreaByRule(batchImages[1].annotations[1]))

-----------------------------------------------------------------------------
(* Properties of the entries of the dataset.                               *)

\* The places of the exported dataset that hold an entry for an image and a
\* class.
EntriesFor(img, classId) ==
  {h \in 1..Len(signal.file[1].data) :
     /\ signal.file[1].data[h].imageName = img.name
     /\ signal.file[1].data[h].classId = classId}

\* C37: the exported dataset has one entry, and no more, for every image of
\* the batch and every class, whether the image has annotations or none.
C37_OneEntryPerPair ==
  Exported =>
    \A i \in 1..Len(batchImages) : \A k \in 1..Len(annotationClasses) :
      Cardinality(EntriesFor(batchImages[i], annotationClasses[k].id)) = 1

\* What holds: an image with annotations has one entry per class, an image
\* without annotations has two, equal but for their place, and an image
\* without effective area has none; no entry is for another image or class.
EntriesAsCoded ==
  Exported =>
    /\ \A i \in 1..Len(batchImages) : \A k \in 1..Len(annotationClasses) :
         LET img == batchImages[i]
             entries == EntriesFor(img, annotationClasses[k].id)
         IN  /\ Cardinality(entries)
                  = IF ~RLt(Num(0), EffectiveArea(img)) THEN 0
                    ELSE IF Len(img.annotations) = 0 THEN 2
                    ELSE 1
             /\ \A g, h \in entries : signal.file[1].data[g] = signal.file[1].data[h]
    /\ \A h \in 1..Len(signal.file[1].data) :
         \E i \in 1..Len(batchImages) : \E k \in 1..Len(annotationClasses) :
           h \in EntriesFor(batchImages[i], annotationClasses[k].id)

\* An image with annotations and an image without any were exported
\* together: one entry per class for the first, two for the second.
EntriesDoubled ==
  /\ Exported
  /\ Len(batchImages) = 2
  /\ Len(batchImages[1].annotations) > 0
  /\ Len(batchImages[2].annotations) = 0
  /\ \A k \in 1..Len(annotationClasses) :
       /\ Cardinality(EntriesFor(batchImages[1], annotationClasses[k].id)) = 1
       /\ Cardinality(EntriesFor(batchImages[2], annotationClasses[k].id)) = 2

-----------------------------------------------------------------------------
(* Properties of the selection.                                            *)

\* The ids of the annotations of the active image.
ActiveAnnotationIds ==
  {ActiveAnnotations(Page)[j].id : j \in 1..Len(ActiveAnnotations(Page))}

SelectionEnded ==
  [][LET selected == {j \in 1..Len(ActiveAnnotations(Page)) :
                        ActiveAnnotations(Page)[j].id = selectedAnnotationId}
     IN  (/\ selectedAnnotationId # NoId
          /\ \/ signal'.op = "handleDeleteSelectedAnnotation"
             \/ /\ signal'.op = "confirmDeleteClass"
                /\ classToDelete # None
                /\ \E j \in selected :
                     ActiveAnnotations(Page)[j].classId = classToDelete[1].id
             \/ signal'.op = "handleSelectImageFromBatch" /\ activeImageId' # activeImageId
             \/ signal'.op = "handleRemoveImageFromBatch"
             \/ signal'.op = "handleMouseDown" /\ isPanning'
             \/ signal'.op = "handleMouseDown" /\ isDrawing')
         => selectedAnnotationId' = NoId
    ]_vars

\* The selection was emptied by the deletion of its class.
SelectionWentWithClass ==
  /\ signal.op = "confirmDeleteClass"
  /\ signal.toast = <<"Class Deleted">>
  /\ selectedAnnotationId = NoId
  /\ Len(ActiveAnnotations(Page)) = 1
  /\ currentTool = "select"

-----------------------------------------------------------------------------
(* Properties of the batch and its active image.                           *)

\* The active image id is empty when the batch is, and else the id of an
\* image of the batch.
ActiveIsOfBatch ==
  /\ activeImageId = NoId <=> Len(batchImages) = 0
  /\ activeImageId # NoId => activeImageId \in ImageIds(Page)

\* The step removes the active image.
ActiveRemoved ==
  /\ signal'.op = "handleRemoveImageFromBatch"
  /\ activeImageId # NoId
  /\ Len(batchImages') = Len(batchImages) - 1
  /\ \E i \in 1..Len(batchImages) :
       /\ batchImages[i].id = activeImageId
       /\ batchImages' = SubSeq(batchImages, 1, i - 1)
                           \o SubSeq(batchImages, i + 1, Len(batchImages))

\* The image before the active one becomes the active one, or the one after
\* it if it is the first, or none if it is the only one.
PrecedingIsActive ==
  LET i == CHOOSE i \in 1..Len(batchImages) : batchImages[i].id = activeImageId
  IN  activeImageId' = IF Len(batchImages) = 1 THEN NoId
                       ELSE IF i = 1 THEN batchImages[2].id
                       ELSE batchImages[i - 1].id

\* C39: the active image id is empty exactly when the batch is empty and is
\* else the id of an image of the batch, after any uploads, selections and
\* removals; the removal of the active image makes the image before it the
\* active one, or the first of those left if it was the first.
C39_ActiveImage ==
  /\ []ActiveIsOfBatch
  /\ [][ActiveRemoved => PrecedingIsActive]_vars

\* What holds: an active image id is the id of an image of the batch, and a
\* removal of the active image makes the image before it the active one.
ActiveIfAnyIsOfBatch ==
  /\ [](activeImageId # NoId => activeImageId \in ImageIds(Page))
  /\ [][ActiveRemoved => PrecedingIsActive]_vars

\* The batch holds an image and none is active: the image was being read
\* while the only image of the batch, the active one, was removed.
NoneActiveOfSome ==
  /\ signal.op = "handleBatchUpload"
  /\ Len(batchImages) = 1
  /\ activeImageId = NoId

\* The second of two images was active and removed, and the first is active.
SecondRemoved ==
  /\ signal.op = "handleRemoveImageFromBatch"
  /\ Len(batchImages) = 1
  /\ batchImages[1].name = "a.png"
  /\ activeImageId = batchImages[1].id

-----------------------------------------------------------------------------
(* Properties of the file names of the batch.                              *)

\* C40: no two images of the batch have one file name, also when files are
\* chosen again before the images of an earlier choice are read and added.
C40_NamesDiffer ==
  \A i, j \in 1..Len(batchImages) :
    i # j => batchImages[i].name # batchImages[j].name

\* What holds: a file is read only if the batch of the render in which it
\* was chosen has no image of its name, and the files of one choice that are
\* added are added once each.
ChosenNamesWereFree ==
  /\ [](\A k \in 1..Len(loading) :
          \A h \in 1..Len(loading[k].files) :
            loading[k].files[h] \notin loading[k].batchNames)
  /\ [][signal'.op = "handleBatchUpload" =>
          \E k \in 1..Len(loading) :
            /\ Len(batchImages') = Len(batchImages) + Len(loading[k].files)
            /\ SubSeq(batchImages', 1, Len(batchImages)) = batchImages
            /\ Range(loading[k].files)
                 = {batchImages'[h].name : h \in (Len(batchImages) + 1)..Len(batchImages')}
       ]_vars

\* The batch holds a.png twice: it was chosen twice before it was read once.
SameNameTwice ==
  /\ signal.op = "handleBatchUpload"
  /\ Len(batchImages) = 2
  /\ batchImages[1].name = "a.png"
  /\ batchImages[2].name = "a.png"

====
